---- MODULE Spec2Model ----
(***************************************************************************)
(* A model of WaveformAnalyzer (src/waveform_analyzer.py): the sampling    *)
(* grid built by the constructor and the analysis operations computed on   *)
(* it.                                                                     *)
(*                                                                         *)
(* Numbers are exact, except under Float64Spec, which computes in IEEE 754 *)
(* binary64 on small waves.  Times and frequencies are rationals           *)
(* <<num, den>> in lowest terms with den > 0; the floating-point values    *)
(* inf, -inf and nan that a zero sample spacing produces are <<1,0>>,      *)
(* <<-1,0>>, <<0,0>>.                                                      *)
(* Sample counts divide 12, so every twiddle factor of the DFT lies in     *)
(* (1/2)Z[sqrt 3][i]; an element a + b*sqrt(3) of Z[sqrt 3] is the pair    *)
(* <<a, b>>.  A magnitude (a non-negative real) is the pair <<p, q>> of    *)
(* elements of Z[sqrt 3] with value sqrt(p / q).                           *)
(***************************************************************************)
EXTENDS Integers, Sequences, FiniteSets, TLC

(***************************************************************************)
(* Bounds of the model.                                                    *)
(***************************************************************************)
\* A generated pulse is non-zero on at most its first MaxWidth samples.
MaxWidth == 3

(***************************************************************************)
(* Python sequences are 0-based: At, Slice and Len follow the code.        *)
(***************************************************************************)
At(s, i) == s[i + 1]

Min(a, b) == IF a < b THEN a ELSE b

Max(a, b) == IF a > b THEN a ELSE b

\* s[lo:hi] for non-negative lo, hi (both clamped to the length).
Slice(s, lo, hi) ==
    LET l == Min(lo, Len(s))
        h == Min(hi, Len(s))
    IN  IF h <= l THEN << >> ELSE [i \in 1..(h - l) |-> s[l + i]]

Abs(a) == IF a < 0 THEN -a ELSE a

(***************************************************************************)
(* Rationals.                                                              *)
(***************************************************************************)
RECURSIVE GCD(_, _)
GCD(a, b) == IF b = 0 THEN a ELSE GCD(b, a % b)

\* n/d in lowest terms; d = 0 gives inf, -inf or nan as IEEE division does.
Rat(n, d) ==
    IF d = 0 THEN << (IF n > 0 THEN 1 ELSE IF n < 0 THEN -1 ELSE 0), 0 >>
    ELSE LET g == GCD(Abs(n), Abs(d))
             s == IF d < 0 THEN -1 ELSE 1
         IN  << (s * n) \div g, (s * d) \div g >>

RZero == Rat(0, 1)

NaN == Rat(0, 0)

IsFinite(x) == x[2] # 0

RInt(n) == Rat(n, 1)

RSub(x, y) ==
    IF IsFinite(x) /\ IsFinite(y) THEN Rat(x[1] * y[2] - y[1] * x[2], x[2] * y[2])
    ELSE IF x = NaN \/ y = NaN \/ x = y THEN NaN
    ELSE IF IsFinite(y) THEN x ELSE Rat(-y[1], 0)

RAdd(x, y) == RSub(x, Rat(-y[1], y[2]))

RAbs(x) == Rat(Abs(x[1]), x[2])

RMul(x, y) == Rat(x[1] * y[1], x[2] * y[2])

\* x / y as numpy's float64 division: a zero divisor gives inf or nan.
RDiv(x, y) ==
    IF IsFinite(x) /\ IsFinite(y) THEN Rat(x[1] * y[2], x[2] * y[1])
    ELSE NaN

\* Comparisons; any comparison with nan is false.
RLt(x, y) ==
    /\ x # NaN /\ y # NaN
    /\ IF IsFinite(x) /\ IsFinite(y) THEN x[1] * y[2] < y[1] * x[2]
       ELSE IF IsFinite(x) THEN y[1] > 0
       ELSE IF IsFinite(y) THEN x[1] < 0
       ELSE x[1] < y[1]

RLe(x, y) == x # NaN /\ y # NaN /\ (x = y \/ RLt(x, y))

(***************************************************************************)
(* Z[sqrt 3].                                                              *)
(***************************************************************************)
ZAdd(x, y) == << x[1] + y[1], x[2] + y[2] >>

ZScale(c, x) == << c * x[1], c * x[2] >>

ZMul(x, y) == << x[1] * y[1] + 3 * x[2] * y[2], x[1] * y[2] + x[2] * y[1] >>

ZInt(n) == << n, 0 >>

\* Is a/b > alpha_i, for a, b > 0 and alpha_i the i-th complete quotient of
\* sqrt(3) = [1; 1, 2, 1, 2, ...]?  (Exact, with no squaring.)
RECURSIVE GtSqrt3(_, _, _)
GtSqrt3(a, b, i) ==
    LET term == IF i = 0 \/ i % 2 = 1 THEN 1 ELSE 2
        quot == a \div b
        r    == a - quot * b
    IN  IF quot > term THEN TRUE
        ELSE IF quot < term \/ r = 0 THEN FALSE
        ELSE ~GtSqrt3(b, r, i + 1)

\* -1, 0 or 1: the sign of a + b*sqrt(3).
ZSign(x) ==
    LET a == x[1]
        b == x[2]
    IN  IF a = 0 /\ b = 0 THEN 0
        ELSE IF a >= 0 /\ b >= 0 THEN 1
        ELSE IF a <= 0 /\ b <= 0 THEN -1
        ELSE IF a > 0 THEN (IF GtSqrt3(a, -b, 0) THEN 1 ELSE -1)
        ELSE (IF GtSqrt3(-a, b, 0) THEN -1 ELSE 1)

ZLe(x, y) == ZSign(ZAdd(y, ZScale(-1, x))) >= 0

ZLt(x, y) == ZSign(ZAdd(y, ZScale(-1, x))) > 0

(***************************************************************************)
(* Magnitudes <<p, q>> = sqrt(p / q), p >= 0, q >= 0 in Z[sqrt 3]; q = 0   *)
(* is the result of a division by zero (nan for p = 0, inf otherwise).     *)
(***************************************************************************)
MagZero == << ZInt(0), ZInt(1) >>

MagIsNumber(x) == x[2] # ZInt(0)

MagIsZero(x) == MagIsNumber(x) /\ x[1] = ZInt(0)

MagLe(x, y) == MagIsNumber(x) /\ MagIsNumber(y) /\ ZLe(ZMul(x[1], y[2]), ZMul(y[1], x[2]))

MagLt(x, y) == MagIsNumber(x) /\ MagIsNumber(y) /\ ZLt(ZMul(x[1], y[2]), ZMul(y[1], x[2]))

MagEq(x, y) == MagLe(x, y) /\ MagLe(y, x)

\* x >= r for a rational r >= 0.
MagGeRat(x, r) ==
    /\ MagIsNumber(x)
    /\ ZLe(ZScale(r[1] * r[1], x[2]), ZScale(r[2] * r[2], x[1]))

(***************************************************************************)
(* numpy / scipy primitives used by the analyzer.                          *)
(***************************************************************************)
\* 2*cos(2*pi*m/12) and 2*sin(2*pi*m/12) in Z[sqrt 3], m = 0..11.
TwoCos12 ==
    << <<2, 0>>, <<0, 1>>, <<1, 0>>, <<0, 0>>, <<-1, 0>>, <<0, -1>>,
       <<-2, 0>>, <<0, -1>>, <<-1, 0>>, <<0, 0>>, <<1, 0>>, <<0, 1>> >>

TwoCos(m) == At(TwoCos12, m % 12)

TwoSin(m) == At(TwoCos12, (m + 9) % 12)

RECURSIVE Array(_, _)
\* The array of the values f[1], ..., f[n], each computed once.
Array(f, n) == IF n = 0 THEN << >> ELSE Append(Array(f, n - 1), f[n])

RECURSIVE ZSum(_, _)
\* Sum over i in S of f[i], f a function to Z[sqrt 3], S a finite set.
ZSum(f, S) ==
    IF S = {} THEN ZInt(0)
    ELSE LET i == CHOOSE i \in S : TRUE IN ZAdd(f[i], ZSum(f, S \ {i}))

\* scipy.fft.fft: X[k] = sum_n wave[n] * exp(-2*pi*i*k*n/M), k = 0..M-1,
\* returned as <<2*Re X[k], 2*Im X[k]>>.  The zero samples add nothing and
\* are skipped.  M = Len(wave) divides 24 and the angle 2*pi*k*n/M of every
\* non-zero sample is a multiple of 30 degrees: always so when M divides
\* 12, and for M = 24 when the wave is zero at the odd instants.
fft(wave) ==
    LET M       == Len(wave)
        step    == 24 \div M
        support == { nn \in 1..M : wave[nn] # 0 }
    IN  [kk \in 1..M |->
            LET k == kk - 1
            IN  << ZSum([nn \in 1..M |->
                           ZScale(wave[nn], TwoCos((step * k * (nn - 1)) \div 2))], support),
                   ZSum([nn \in 1..M |->
                           ZScale(-wave[nn], TwoSin((step * k * (nn - 1)) \div 2))], support) >>]

\* np.abs of a complex number given as <<2*Re, 2*Im>>: sqrt(p / 4).
ComplexAbs(z) == << ZAdd(ZMul(z[1], z[1]), ZMul(z[2], z[2])), ZInt(4) >>

\* magnitude / n for an integer n > 0.
MagDivInt(x, n) == << x[1], ZScale(n * n, x[2]) >>

\* x / y for magnitudes (numpy division: y = 0 gives nan or inf, no exception).
MagDiv(x, y) ==
    IF MagIsZero(y) \/ ~MagIsNumber(y) \/ ~MagIsNumber(x) THEN << x[1], ZInt(0) >>
    ELSE IF x[2] = y[2] THEN << x[1], y[1] >>
    ELSE << ZMul(x[1], y[2]), ZMul(y[1], x[2]) >>

RECURSIVE MagMaxUpTo(_, _)
MagMaxUpTo(s, n) ==
    IF n = 1 THEN s[1]
    ELSE LET m == MagMaxUpTo(s, n - 1)
         IN  IF MagLt(m, s[n]) THEN s[n] ELSE m

\* np.max of a non-empty sequence of magnitudes.
MagMax(s) == MagMaxUpTo(s, Len(s))

RECURSIVE ArgMaxUpTo(_, _)
ArgMaxUpTo(s, n) ==
    IF n = 1 THEN 1
    ELSE LET k == ArgMaxUpTo(s, n - 1)
         IN  IF MagLt(s[k], s[n]) THEN n ELSE k

\* np.argmax: the 0-based index of the first maximum of a non-empty sequence.
ArgMax(s) == ArgMaxUpTo(s, Len(s)) - 1

\* np.searchsorted(a, v) (side = left) on an ascending sequence of rationals:
\* the first index whose element is >= v, or len(a).
SearchSorted(a, v) ==
    IF \E i \in 1..Len(a) : RLe(v, a[i])
    THEN (CHOOSE i \in 1..Len(a) : RLe(v, a[i]) /\ \A j \in 1..(i - 1) : ~RLe(v, a[j])) - 1
    ELSE Len(a)

\* np.linspace(0, stop, num) for num >= 0 (num < 0 raises ValueError).
Linspace(stop, num) ==
    IF num = 1 THEN << RZero >>
    ELSE LET step == RDiv(stop, RInt(num - 1))
         IN  [i \in 1..num |-> RMul(RInt(i - 1), step)]

\* scipy.fft.fftfreq(n, d): [0, 1, ..., (n-1)//2, -(n//2), ..., -1] / (n*d).
FftFreq(n, d) ==
    LET val == RDiv(RInt(1), RMul(RInt(n), d))
        pos == (n - 1) \div 2
    IN  [i \in 1..n |->
            LET k == IF i - 1 <= pos THEN i - 1 ELSE i - 1 - n
            IN  IF IsFinite(val) THEN RMul(RInt(k), val)
                ELSE IF k = 0 THEN NaN
                ELSE Rat(k * val[1], 0)]

\* Variant: nothing is filtered out.
FilterPositive_Unfiltered(a) == a

\* a[a > 0]: the subsequence of the strictly positive entries.
RECURSIVE FilterPositive(_)
FilterPositive(a) ==
    IF a = << >> THEN << >>
    ELSE IF RLt(RZero, Head(a)) THEN << Head(a) >> \o FilterPositive(Tail(a))
    ELSE FilterPositive(Tail(a))

(***************************************************************************)
(* State.  The analyzer object's attributes (attrs names the ones that     *)
(* have been assigned), the caller's wave buffer and the last call.        *)
(***************************************************************************)
VARIABLES
    pc,             \* "new", "failed", "idle", "loaded" or "returned"
    attrs,          \* names of the attributes set on the analyzer object
    config,         \* self.config
    t,              \* self.t
    dt,             \* self.dt
    n_freq,         \* self.n_freq
    freq,           \* self.freq
    freq_positive,  \* self.freq_positive
    wave,           \* the caller's wave buffer
    call,           \* the operation called last and its arguments
    result,         \* what it returned
    raised          \* the exception it raised, or "none"

vars == << pc, attrs, config, t, dt, n_freq, freq, freq_positive, wave, call, result, raised >>

grid == << attrs, config, t, dt, n_freq, freq, freq_positive >>

\* max_freq = None.
None == << >>

(***************************************************************************)
(* Inputs.                                                                 *)
(***************************************************************************)
default_config == [t_max |-> 1, n_samples |-> 100000]

TMaxValues == {-1, 0, 1, 2}

NSamplesValues == {-1, 0, 1, 2, 3, 4, 6, 12, 24}

\* The config dictionaries passed to the constructor: n_samples is always
\* given, t_max may be left to its default.
ConfigArgs ==
    [{"n_samples"} -> NSamplesValues]
        \cup { [key \in {"t_max", "n_samples"} |-> IF key = "t_max" THEN tm ELSE ns] :
                 tm \in TMaxValues, ns \in NSamplesValues }

WaveLengths == {2, 3, 4, 6, 12}

Amplitudes == {-1, 0, 1}

\* Pulses: arbitrary on the first MaxWidth samples, zero afterwards.
Pulses(M) ==
    { [i \in 1..M |-> IF i <= Len(head) THEN head[i] ELSE 0] :
        head \in [1..Min(M, MaxWidth) -> Amplitudes] }

\* The sampled cosine of DFT bin k on M samples, 2*cos(2*pi*k*n/M), rounded
\* to an integer (sqrt(3) to 2); exact unless M = 12 and k is 1 or 5.
Tone(M, k) ==
    [i \in 1..M |-> LET c == TwoCos((12 \div M) * k * (i - 1)) IN c[1] + 2 * c[2]]

\* One tone, or the sum of two different ones.
Tones(M) ==
    { Tone(M, k) : k \in 0..(M \div 2) }
        \cup { [i \in 1..M |-> Tone(M, p[1])[i] + Tone(M, p[2])[i]] :
                 p \in { q \in (0..(M \div 2)) \X (0..(M \div 2)) : q[1] < q[2] } }

\* A wave sampled at every other instant of a grid twice as fine: w[n] at
\* the even instant 2n, zero at the odd instants.
Interleave(w) ==
    [i \in 1..(2 * Len(w)) |-> IF i % 2 = 1 THEN w[(i + 1) \div 2] ELSE 0]

\* The waves sampled on a grid of n instants: pulses and tones and, on the
\* finest grid, tones at every other instant.
OnGridWaves(n) ==
    IF n \in WaveLengths THEN Pulses(n) \cup Tones(n)
    ELSE IF n = 24 THEN { Interleave(w) : w \in Tones(12) }
    ELSE {}

\* Single tones of every length: on most grids they have more or fewer
\* samples than the grid has instants.
SingleTones ==
    UNION { { Tone(M, k) : k \in 0..(M \div 2) } : M \in WaveLengths }
        \cup { Interleave(Tone(12, k)) : k \in 0..6 }

\* The waves passed to an analyzer of n samples.
WavesFor(n) == OnGridWaves(n) \cup SingleTones

MinFreqs == {RInt(0), RInt(1), Rat(11, 6), RInt(3)}

MaxFreqs == {None, RInt(2), RInt(4)}

Thresholds == {Rat(1, 2), Rat(4, 5), RInt(1), Rat(11, 10)}

\* Time vectors handed to the generator besides the analyzer's own: evenly
\* spaced ones, some starting before 0, and one that is not sorted.
TimeVectors ==
    { [i \in 1..n |-> Rat(start + (i - 1) * step, 4)] :
        start \in {-1, 0}, step \in {1, 2}, n \in {4, 7} }
        \cup { << RInt(3), RInt(-1), Rat(1, 2), RInt(1), RZero >> }

Widths == {Rat(1, 2), RInt(1), Rat(3, 2), RInt(3)}

NPeaks == 0..3

Heights == {Rat(1, 10), Rat(1, 2), Rat(11, 10)}

\* The calls of find_multiple_peaks: the default arguments (3, 1, None, 0.1)
\* with at most one of them changed.
PeakCalls ==
    LET defaults == [n_peaks |-> 3, min_freq |-> RInt(1), max_freq |-> None,
                     height |-> Rat(1, 10)]
    IN  { c \in [n_peaks : NPeaks, min_freq : MinFreqs, max_freq : MaxFreqs,
                 height : Heights] :
            Cardinality({ key \in DOMAIN c : c[key] # defaults[key] }) <= 1 }

(***************************************************************************)
(* WaveformAnalyzer.__init__ and _init_time_freq_params.                   *)
(***************************************************************************)
\* dict.update: the keys of the argument override the defaults.
UpdateConfig(base, arg) ==
    [key \in DOMAIN base |-> IF key \in DOMAIN arg THEN arg[key] ELSE base[key]]

\* The spec's SamplingGrid: t_max > 0 and n_samples >= 2.
ValidConfig(c) == c.t_max > 0 /\ c.n_samples >= 2

Init ==
    /\ pc = "new"
    /\ attrs = {}
    /\ config = default_config
    /\ t = << >>
    /\ dt = RZero
    /\ n_freq = 0
    /\ freq = << >>
    /\ freq_positive = << >>
    /\ wave = << >>
    /\ call = [op |-> "none"]
    /\ result = << >>
    /\ raised = "none"

\* WaveformAnalyzer(arg): the assignments are made in the code's order and
\* stop at the first statement that raises.
Construct(arg) ==
    LET c  == UpdateConfig(default_config, arg)
        n  == c.n_samples
        tt == Linspace(RInt(c.t_max), n)
        d  == RSub(At(tt, 1), At(tt, 0))
        nf == n \div 2
        f  == Slice(FftFreq(n, d), 0, nf)
    IN  /\ pc = "new"
        /\ config' = c
        /\ IF n < 0
           THEN \* np.linspace raises ValueError
                /\ pc' = "failed"
                /\ raised' = "ValueError"
                /\ attrs' = {"config"}
                /\ UNCHANGED << t, dt, n_freq, freq, freq_positive >>
           ELSE IF n < 2
           THEN \* self.t[1] raises IndexError
                /\ pc' = "failed"
                /\ raised' = "IndexError"
                /\ attrs' = {"config", "t"}
                /\ t' = tt
                /\ UNCHANGED << dt, n_freq, freq, freq_positive >>
           ELSE /\ pc' = "idle"
                /\ raised' = "none"
                /\ attrs' = {"config", "t", "dt", "n_freq", "freq", "freq_positive"}
                /\ t' = tt
                /\ dt' = d
                /\ n_freq' = nf
                /\ freq' = f
                /\ freq_positive' = FilterPositive(f)
        /\ UNCHANGED << wave, call, result >>

(***************************************************************************)
(* The analysis operations, as functions of the wave, the arguments and    *)
(* the grid.                                                               *)
(***************************************************************************)
\* np.abs(fft(wave))[:n_freq] / n_samples: the raw magnitudes
\* |X[k]| / n_samples of the first n_freq bins of the transform (all of them
\* when the wave has fewer than n_freq samples).
RawMagnitude(w) ==
    LET spectrum == fft(w)
        kept     == Min(n_freq, Len(w))
    IN  Array([i \in 1..kept |-> MagDivInt(ComplexAbs(spectrum[i]), config.n_samples)], kept)

\* The kept bins (0-based) whose magnitude is zero in exact arithmetic and in
\* which a floating-point transform may leave a rounding residue instead:
\* the wave is not silent and the roots of unity of bin k, the multiples of
\* 360*k/len(wave) degrees, are not all among 1, -i, -1 and i.  Bin 0 is a
\* sum of integers and is exact.
ResidueBins(w) ==
    LET magnitude == RawMagnitude(w)
    IN  { k \in 0..(Len(magnitude) - 1) :
            /\ (4 * k) % Len(w) # 0
            /\ MagIsZero(At(magnitude, k))
            /\ \E i \in 1..Len(w) : w[i] # 0 }

\* The sizes a residue may have relative to the largest residue of the
\* spectrum: 3/5, between the thresholds and heights of the calls, and 1.  (A
\* residue below every threshold and height acts as the zero does.)
ResidueRatios ==
    { << ZInt(9), ZInt(25) >>, << ZInt(1), ZInt(1) >> }

\* magnitude / np.max(magnitude) for a wave whose kept bins are all zero in
\* exact arithmetic, when the transform has left residues: every bin of
\* ResidueBins holds zero or a ratio, one of them at least holds 1, and the
\* other bins are zero.
ResidueSpectra(w) ==
    LET magnitude == RawMagnitude(w)
        bins      == ResidueBins(w)
        zero      == magnitude[1]
    IN  IF bins = {} THEN {}
        ELSE { s \in [1..Len(magnitude) -> {zero} \cup ResidueRatios] :
                 /\ \A i \in 1..Len(magnitude) : s[i] # zero => i - 1 \in bins
                 /\ \E i \in 1..Len(magnitude) : s[i] = << ZInt(1), ZInt(1) >> }

\* Variant: the peak is taken over all the bins of the transform, not over
\* the kept ones.
compute_spectrum_FullPeak(w, normalize) ==
    LET full      == fft(w)
        magnitude == RawMagnitude(w)
        peak      == MagMax([i \in 1..Len(full) |->
                                MagDivInt(ComplexAbs(full[i]), config.n_samples)])
    IN  IF normalize /\ MagLt(MagZero, peak)
        THEN { [i \in 1..Len(magnitude) |-> MagDiv(magnitude[i], peak)] }
        ELSE { magnitude }

\* Variant: normalizes without testing that the peak is positive.
compute_spectrum_NoZeroGuard(w, normalize) ==
    LET magnitude == RawMagnitude(w)
        peak      == MagMax(magnitude)
    IN  IF normalize
        THEN { [i \in 1..Len(magnitude) |-> MagDiv(magnitude[i], peak)] }
        ELSE { magnitude }

\* compute_spectrum(wave, normalize): the sequences of magnitudes it may
\* return.  There is one, but for normalize = True on a wave whose kept bins
\* are all zero in exact arithmetic: np.max(magnitude) > 0 is then false and
\* the zeros are returned, or it is true of a residue and the residues are
\* divided by the largest.  Elsewhere a residue is written as the zero it
\* stands for.
compute_spectrum(w, normalize) ==
    LET magnitude == RawMagnitude(w)
        peak      == MagMax(magnitude)
    IN  IF ~normalize
        THEN { magnitude }
        ELSE IF MagLt(MagZero, peak)
        THEN { Array([i \in 1..Len(magnitude) |-> MagDiv(magnitude[i], peak)], Len(magnitude)) }
        ELSE { magnitude } \cup ResidueSpectra(w)

\* The index range [min_idx, max_idx) that find_dominant_frequency and
\* find_multiple_peaks compute from min_freq and max_freq.
min_idx(min_freq) == Max(1, SearchSorted(freq_positive, min_freq))

max_idx(max_freq) ==
    IF max_freq = None THEN Len(freq_positive) ELSE SearchSorted(freq_positive, max_freq)

\* np.argmax(spectrum_range), 0-based, for the slice of the raw spectrum of w
\* that starts at index lo: the first maximum, and when the whole slice is
\* zero in exact arithmetic also every position a residue may make the
\* largest.
ArgMaxes(w, spectrum_range, lo) ==
    IF MagLt(MagZero, MagMax(spectrum_range))
    THEN { ArgMax(spectrum_range) }
    ELSE LET bins == ResidueBins(w)
         IN  { ArgMax(spectrum_range) }
                 \cup { i \in 0..(Len(spectrum_range) - 1) : lo + i \in bins }

\* Variant: no test for the empty sub-range.
find_dominant_frequency_NoEmptyTest(w, min_freq, max_freq) ==
    LET spectrum       == RawMagnitude(w)
        lo             == min_idx(min_freq)
        freq_range     == Slice(freq_positive, lo, max_idx(max_freq))
        spectrum_range == Slice(spectrum, lo, lo + Len(freq_range))
    IN  IF Len(spectrum_range) = 0
        THEN \* np.argmax of an empty sequence
             { [raises |-> "ValueError", value |-> << >>] }
        ELSE { [raises |-> "none",
                value  |-> << At(freq_range, peak_idx), At(spectrum_range, peak_idx) >>] :
                 peak_idx \in ArgMaxes(w, spectrum_range, lo) }

\* Variant: a peak of magnitude 0 is answered with the (0, 0) of the empty
\* sub-range.
find_dominant_frequency_SilentIsSentinel(w, min_freq, max_freq) ==
    LET spectrum       == RawMagnitude(w)
        lo             == min_idx(min_freq)
        freq_range     == Slice(freq_positive, lo, max_idx(max_freq))
        spectrum_range == Slice(spectrum, lo, lo + Len(freq_range))
    IN  IF Len(freq_range) = 0
        THEN { [raises |-> "none", value |-> << RZero, MagZero >>] }
        ELSE IF Len(spectrum_range) = 0
        THEN { [raises |-> "ValueError", value |-> << >>] }
        ELSE { IF MagEq(At(spectrum_range, peak_idx), MagZero)
               THEN [raises |-> "none", value |-> << RZero, MagZero >>]
               ELSE [raises |-> "none",
                     value  |-> << At(freq_range, peak_idx), At(spectrum_range, peak_idx) >>] :
                 peak_idx \in ArgMaxes(w, spectrum_range, lo) }

\* find_dominant_frequency(wave, min_freq, max_freq): the outcomes
\* [raises, value] it may have, value = <<dominant_freq, peak_value>>.
find_dominant_frequency(w, min_freq, max_freq) ==
    UNION { LET lo             == min_idx(min_freq)
                freq_range     == Slice(freq_positive, lo, max_idx(max_freq))
                spectrum_range == Slice(spectrum, lo, lo + Len(freq_range))
            IN  IF Len(freq_range) = 0
                THEN { [raises |-> "none", value |-> << RZero, MagZero >>] }
                ELSE IF Len(spectrum_range) = 0
                THEN \* np.argmax of an empty sequence
                     { [raises |-> "ValueError", value |-> << >>] }
                ELSE { [raises |-> "none",
                        value  |-> << At(freq_range, peak_idx),
                                      At(spectrum_range, peak_idx) >>] :
                         peak_idx \in ArgMaxes(w, spectrum_range, lo) } :
            spectrum \in compute_spectrum(w, FALSE) }

RECURSIVE RunEnd(_, _)
\* The last index of the run of equal values of x that starts at index i
\* (1-based).
RunEnd(x, i) == IF i < Len(x) /\ MagEq(x[i + 1], x[i]) THEN RunEnd(x, i + 1) ELSE i

\* Variant: every inner sample that is not below either neighbour.
LocalMaxima_NonStrict(x) ==
    { i - 1 : i \in { j \in 2..(Len(x) - 1) :
                         MagLe(x[j - 1], x[j]) /\ MagLe(x[j + 1], x[j]) } }

\* scipy's _local_maxima_1d: the 0-based midpoints (left + right) // 2 of the
\* runs of equal values that have a smaller sample on each side; the first
\* and the last sample are never maxima.
LocalMaxima(x) ==
    { ((l - 1) + (RunEnd(x, l) - 1)) \div 2 :
        l \in { i \in 2..(Len(x) - 1) :
                   /\ MagLt(x[i - 1], x[i])
                   /\ RunEnd(x, i) < Len(x)
                   /\ MagLt(x[RunEnd(x, i) + 1], x[i]) } }

RECURSIVE Ascending(_)
\* The elements of a finite set of integers, in ascending order.
Ascending(S) ==
    IF S = {} THEN << >>
    ELSE LET m == CHOOSE i \in S : \A j \in S : i <= j
         IN  << m >> \o Ascending(S \ {m})

\* scipy.signal.find_peaks(x, height = height): the indices of the local
\* maxima whose value is at least height, ascending.
find_peaks(x, height) ==
    Ascending({ p \in LocalMaxima(x) : MagGeRat(At(x, p), height) })

\* np.argsort(values): the orders (0-based positions) that put the values in
\* ascending order.  The default sort is not stable, so equal values may
\* come in either order.
ArgSort(values) ==
    LET m == Len(values)
    IN  { order \in [1..m -> 0..(m - 1)] :
            /\ \A i, j \in 1..m : i # j => order[i] # order[j]
            /\ \A i \in 1..(m - 1) : MagLe(At(values, order[i]), At(values, order[i + 1])) }

\* a[::-1]
Reverse(a) == [i \in 1..Len(a) |-> a[Len(a) + 1 - i]]

\* Variant: the sorted peaks are not cut to n_peaks.
find_multiple_peaks_Untruncated(w, n_peaks, min_freq, max_freq, height) ==
    UNION { LET lo             == min_idx(min_freq)
                freq_range     == Slice(freq_positive, lo, max_idx(max_freq))
                spectrum_range == Slice(spectrum, lo, lo + Len(freq_range))
            IN  IF Len(freq_range) = 0
                THEN { << << >>, << >> >> }
                ELSE LET peaks  == find_peaks(spectrum_range, height)
                         values == [j \in 1..Len(peaks) |-> At(spectrum_range, peaks[j])]
                     IN  { LET sorted_indices == Reverse(order)
                           IN  << [j \in 1..Len(sorted_indices) |->
                                      At(freq_range, At(peaks, sorted_indices[j]))],
                                  [j \in 1..Len(sorted_indices) |->
                                      At(spectrum_range, At(peaks, sorted_indices[j]))] >> :
                             order \in ArgSort(values) } :
            spectrum \in compute_spectrum(w, TRUE) }

\* Variant: the peaks are taken in ascending order of magnitude.
find_multiple_peaks_Ascending(w, n_peaks, min_freq, max_freq, height) ==
    UNION { LET lo             == min_idx(min_freq)
                freq_range     == Slice(freq_positive, lo, max_idx(max_freq))
                spectrum_range == Slice(spectrum, lo, lo + Len(freq_range))
            IN  IF Len(freq_range) = 0
                THEN { << << >>, << >> >> }
                ELSE LET peaks  == find_peaks(spectrum_range, height)
                         values == [j \in 1..Len(peaks) |-> At(spectrum_range, peaks[j])]
                     IN  { LET sorted_indices == Slice(order, 0, n_peaks)
                           IN  << [j \in 1..Len(sorted_indices) |->
                                      At(freq_range, At(peaks, sorted_indices[j]))],
                                  [j \in 1..Len(sorted_indices) |->
                                      At(spectrum_range, At(peaks, sorted_indices[j]))] >> :
                             order \in ArgSort(values) } :
            spectrum \in compute_spectrum(w, TRUE) }

\* find_multiple_peaks(wave, n_peaks, min_freq, max_freq, height), n_peaks >= 0:
\* the pairs <<peak_freqs, peak_values>> it may return, one for each
\* normalized spectrum and each order np.argsort may give to equal peaks.
find_multiple_peaks(w, n_peaks, min_freq, max_freq, height) ==
    UNION { LET lo             == min_idx(min_freq)
                freq_range     == Slice(freq_positive, lo, max_idx(max_freq))
                spectrum_range == Slice(spectrum, lo, lo + Len(freq_range))
            IN  IF Len(freq_range) = 0
                THEN { << << >>, << >> >> }
                ELSE LET peaks  == find_peaks(spectrum_range, height)
                         values == [j \in 1..Len(peaks) |-> At(spectrum_range, peaks[j])]
                     IN  { LET sorted_indices == Slice(Reverse(order), 0, n_peaks)
                           IN  << [j \in 1..Len(sorted_indices) |->
                                      At(freq_range, At(peaks, sorted_indices[j]))],
                                  [j \in 1..Len(sorted_indices) |->
                                      At(spectrum_range, At(peaks, sorted_indices[j]))] >> :
                             order \in ArgSort(values) } :
            spectrum \in compute_spectrum(w, TRUE) }

\* The 0-based indices of the entries of band at or above threshold
\* (np.where(mask)[0]), and the result built from them.
QualifyingIndices(band, threshold) ==
    { i \in 0..(Len(band) - 1) : MagGeRat(At(band, i), threshold) }

SetMin(S) == CHOOSE i \in S : \A j \in S : i <= j

SetMax(S) == CHOOSE i \in S : \A j \in S : j <= i

\* Variant: the threshold is applied to the raw spectrum.
compute_bandwidth_Raw(w, threshold) ==
    { LET indices == QualifyingIndices(Slice(spectrum, 1, Len(freq_positive) + 1), threshold)
      IN  IF indices = {}
          THEN << RZero, RZero, RZero >>
          ELSE LET low_freq  == At(freq_positive, SetMin(indices))
                   high_freq == At(freq_positive, SetMax(indices))
               IN  << low_freq, high_freq, RSub(high_freq, low_freq) >> :
      spectrum \in compute_spectrum(w, FALSE) }

\* Variant: high_freq is the end of the first run of qualifying entries.
compute_bandwidth_FirstRun(w, threshold) ==
    { LET indices == QualifyingIndices(Slice(spectrum, 1, Len(freq_positive) + 1), threshold)
      IN  IF indices = {}
          THEN << RZero, RZero, RZero >>
          ELSE LET low_freq  == At(freq_positive, SetMin(indices))
                   high_freq == At(freq_positive,
                                   SetMin({ i \in indices : i + 1 \notin indices }))
               IN  << low_freq, high_freq, RSub(high_freq, low_freq) >> :
      spectrum \in compute_spectrum(w, TRUE) }

\* compute_bandwidth(wave, threshold): the triples
\* <<low_freq, high_freq, bandwidth>> it may return, one for each normalized
\* spectrum.
compute_bandwidth(w, threshold) ==
    { LET indices == QualifyingIndices(Slice(spectrum, 1, Len(freq_positive) + 1), threshold)
      IN  IF indices = {}
          THEN << RZero, RZero, RZero >>
          ELSE LET low_freq  == At(freq_positive, SetMin(indices))
                   high_freq == At(freq_positive, SetMax(indices))
               IN  << low_freq, high_freq, RSub(high_freq, low_freq) >> :
      spectrum \in compute_spectrum(w, TRUE) }

\* The samples of a wave as floating-point numbers.
AsFloat(w) == [i \in 1..Len(w) |-> RInt(w[i])]

\* a**2, elementwise.
Square(a) == [i \in 1..Len(a) |-> RMul(a[i], a[i])]

RECURSIVE SumUpTo(_, _)
SumUpTo(a, n) == IF n = 0 THEN RZero ELSE RAdd(SumUpTo(a, n - 1), a[n])

\* np.sum, np.mean, np.min and np.max of a sequence of numbers (the last
\* three of a non-empty one).  The samples are integers: their float64 sum is
\* exact and the mean is the exact quotient, which the code rounds to the
\* nearest float (Mean64 below is np.mean with the rounding of every step).
Sum(a) == SumUpTo(a, Len(a))

Mean(a) == RDiv(Sum(a), RInt(Len(a)))

Amin(a) == a[CHOOSE i \in 1..Len(a) : \A j \in 1..Len(a) : RLe(a[i], a[j])]

Amax(a) == a[CHOOSE i \in 1..Len(a) : \A j \in 1..Len(a) : RLe(a[j], a[i])]

\* np.sqrt of a rational r >= 0, as a magnitude.
Sqrt(r) == << ZInt(r[1]), ZInt(r[2]) >>

\* np.std: the square root of the mean squared deviation from the mean.
Std(a) ==
    LET mean == Mean(a)
    IN  Sqrt(Mean(Square([i \in 1..Len(a) |-> RSub(a[i], mean)])))

\* compute_energy(wave) = np.sum(wave**2) * self.dt
compute_energy(w) == RMul(Sum(Square(AsFloat(w))), dt)

\* compute_statistics(wave): the dictionary of the seven statistics.
compute_statistics(w) ==
    LET a == AsFloat(w)
    IN  [mean         |-> Mean(a),
         std          |-> Std(a),
         min          |-> Amin(a),
         max          |-> Amax(a),
         peak_to_peak |-> RSub(Amax(a), Amin(a)),
         rms          |-> Sqrt(Mean(Square(a))),
         energy       |-> compute_energy(w)]

(***************************************************************************)
(* The waveform generator: functions of a time vector (a sequence of       *)
(* floating-point instants) and of a width.                                *)
(***************************************************************************)
\* np.sin(np.pi * x) for x = t / width: 0 at 0, 1 at 1/2, and otherwise a
\* number that is kept as the expression itself.
SinPi(x) ==
    IF x = RZero THEN RZero
    ELSE IF x = Rat(1, 2) THEN RInt(1)
    ELSE << x[1], x[2], "sin(pi*x)" >>

\* Variant: the lower bound of the mask is missing.
half_sine_wave_NoLowerBound(tv, width) ==
    [i \in 1..Len(tv) |->
        IF RLe(tv[i], width) THEN SinPi(RDiv(tv[i], width)) ELSE RZero]

\* half_sine_wave(t, width)
half_sine_wave(tv, width) ==
    [i \in 1..Len(tv) |->
        IF RLe(RZero, tv[i]) /\ RLe(tv[i], width)
        THEN SinPi(RDiv(tv[i], width))
        ELSE RZero]

\* square_wave(t, width)
square_wave(tv, width) ==
    [i \in 1..Len(tv) |->
        IF RLe(RZero, tv[i]) /\ RLe(tv[i], width) THEN RInt(1) ELSE RZero]

\* Variant: the falling edge is 2 - t/width.
triangle_wave_SlowFall(tv, width) ==
    LET half == RDiv(width, RInt(2))
    IN  [i \in 1..Len(tv) |->
            IF RLe(RZero, tv[i]) /\ RLe(tv[i], half)
            THEN RDiv(RMul(RInt(2), tv[i]), width)
            ELSE IF RLt(half, tv[i]) /\ RLe(tv[i], width)
            THEN RSub(RInt(2), RDiv(tv[i], width))
            ELSE RZero]

\* triangle_wave(t, width)
triangle_wave(tv, width) ==
    LET half == RDiv(width, RInt(2))
    IN  [i \in 1..Len(tv) |->
            IF RLe(RZero, tv[i]) /\ RLe(tv[i], half)
            THEN RDiv(RMul(RInt(2), tv[i]), width)
            ELSE IF RLt(half, tv[i]) /\ RLe(tv[i], width)
            THEN RSub(RInt(2), RDiv(RMul(RInt(2), tv[i]), width))
            ELSE RZero]

(***************************************************************************)
(* Actions.  The caller loads a wave into its buffer, calls one operation  *)
(* on it, takes the result, and may go on with the same or another wave.   *)
(* Every analyzer the constructor has built is used, also one whose t_max  *)
(* is not positive: no operation tests the grid.                           *)
(***************************************************************************)
LoadWave(w) ==
    /\ pc = "idle"
    /\ pc' = "loaded"
    /\ wave' = w
    /\ UNCHANGED << grid, call, result, raised >>

\* Variant: the spectrum computed first is kept in the config dictionary and
\* returned by the later calls.
ComputeSpectrum_Cached(normalize) ==
    /\ pc = "loaded"
    /\ pc' = "returned"
    /\ call' = [op |-> "compute_spectrum", normalize |-> normalize]
    /\ \E computed \in compute_spectrum(wave, normalize) :
           LET spectrum == IF "spectrum" \in DOMAIN config
                           THEN config.spectrum
                           ELSE computed
           IN  /\ result' = spectrum
               /\ config' = [t_max |-> config.t_max, n_samples |-> config.n_samples,
                             spectrum |-> spectrum]
    /\ raised' = "none"
    /\ UNCHANGED << attrs, t, dt, n_freq, freq, freq_positive, wave >>

ComputeSpectrum(normalize) ==
    /\ pc = "loaded"
    /\ pc' = "returned"
    /\ call' = [op |-> "compute_spectrum", normalize |-> normalize]
    /\ result' \in compute_spectrum(wave, normalize)
    /\ raised' = "none"
    /\ UNCHANGED << grid, wave >>

FindDominantFrequency(min_freq, max_freq) ==
    /\ pc = "loaded"
    /\ pc' = "returned"
    /\ call' = [op |-> "find_dominant_frequency", min_freq |-> min_freq,
                max_freq |-> max_freq]
    /\ \E r \in find_dominant_frequency(wave, min_freq, max_freq) :
           result' = r.value /\ raised' = r.raises
    /\ UNCHANGED << grid, wave >>

ComputeBandwidth(threshold) ==
    /\ pc = "loaded"
    /\ pc' = "returned"
    /\ call' = [op |-> "compute_bandwidth", threshold |-> threshold]
    /\ result' \in compute_bandwidth(wave, threshold)
    /\ raised' = "none"
    /\ UNCHANGED << grid, wave >>

FindMultiplePeaks(n_peaks, min_freq, max_freq, height) ==
    /\ pc = "loaded"
    /\ pc' = "returned"
    /\ call' = [op |-> "find_multiple_peaks", n_peaks |-> n_peaks, min_freq |-> min_freq,
                max_freq |-> max_freq, height |-> height]
    /\ result' \in find_multiple_peaks(wave, n_peaks, min_freq, max_freq, height)
    /\ raised' = "none"
    /\ UNCHANGED << grid, wave >>

\* Variant: the wave is squared in place (wave **= 2).
ComputeEnergy_InPlace ==
    /\ pc = "loaded"
    /\ pc' = "returned"
    /\ call' = [op |-> "compute_energy"]
    /\ result' = compute_energy(wave)
    /\ raised' = "none"
    /\ wave' = [i \in 1..Len(wave) |-> wave[i] * wave[i]]
    /\ UNCHANGED grid

ComputeEnergy ==
    /\ pc = "loaded"
    /\ pc' = "returned"
    /\ call' = [op |-> "compute_energy"]
    /\ result' = compute_energy(wave)
    /\ raised' = "none"
    /\ UNCHANGED << grid, wave >>

ComputeStatistics ==
    /\ pc = "loaded"
    /\ pc' = "returned"
    /\ call' = [op |-> "compute_statistics"]
    /\ result' = compute_statistics(wave)
    /\ raised' = "none"
    /\ UNCHANGED << grid, wave >>

\* The caller has consumed the result.
Return ==
    /\ pc = "returned"
    /\ pc' = "loaded"
    /\ call' = [op |-> "none"]
    /\ result' = << >>
    /\ raised' = "none"
    /\ UNCHANGED << grid, wave >>

\* The caller drops its wave buffer.
Release ==
    /\ pc = "loaded"
    /\ pc' = "idle"
    /\ wave' = << >>
    /\ UNCHANGED << grid, call, result, raised >>

Next ==
    \/ \E arg \in ConfigArgs : Construct(arg)
    \/ \E w \in WavesFor(config.n_samples) : LoadWave(w)
    \/ \E normalize \in BOOLEAN : ComputeSpectrum(normalize)
    \/ \E min_freq \in MinFreqs, max_freq \in MaxFreqs :
           FindDominantFrequency(min_freq, max_freq)
    \/ \E threshold \in Thresholds : ComputeBandwidth(threshold)
    \/ \E c \in PeakCalls : FindMultiplePeaks(c.n_peaks, c.min_freq, c.max_freq, c.height)
    \/ ComputeEnergy
    \/ ComputeStatistics
    \/ Return
    \/ Release

Spec == Init /\ [][Next]_vars

(***************************************************************************)
(* The generator called by the holder of an analyzer, with the analyzer's  *)
(* time vector or with one of its own.                                     *)
(***************************************************************************)
HalfSineWave(tv, width) ==
    /\ pc = "idle"
    /\ pc' = "generated"
    /\ call' = [op |-> "half_sine_wave", t |-> tv, width |-> width]
    /\ result' = half_sine_wave(tv, width)
    /\ UNCHANGED << grid, wave, raised >>

SquareWave(tv, width) ==
    /\ pc = "idle"
    /\ pc' = "generated"
    /\ call' = [op |-> "square_wave", t |-> tv, width |-> width]
    /\ result' = square_wave(tv, width)
    /\ UNCHANGED << grid, wave, raised >>

TriangleWave(tv, width) ==
    /\ pc = "idle"
    /\ pc' = "generated"
    /\ call' = [op |-> "triangle_wave", t |-> tv, width |-> width]
    /\ result' = triangle_wave(tv, width)
    /\ UNCHANGED << grid, wave, raised >>

\* The caller has consumed the generated wave.
Discard ==
    /\ pc = "generated"
    /\ pc' = "idle"
    /\ call' = [op |-> "none"]
    /\ result' = << >>
    /\ UNCHANGED << grid, wave, raised >>

GenNext ==
    \/ \E arg \in ConfigArgs : Construct(arg)
    \/ \E tv \in TimeVectors \cup {t}, width \in Widths : HalfSineWave(tv, width)
    \/ \E tv \in TimeVectors \cup {t}, width \in Widths : SquareWave(tv, width)
    \/ \E tv \in TimeVectors \cup {t}, width \in Widths : TriangleWave(tv, width)
    \/ Discard

GenSpec == Init /\ [][GenNext]_vars

(***************************************************************************)
(* IEEE 754 binary64, the float64 of numpy.  A natural number is the       *)
(* sequence of its digits in base 2^15, least significant first, with no   *)
(* leading zero digit (zero is the empty sequence).  A float is the triple *)
(* <<s, m, e>> of value s * m * 2^e with s in {-1, 1} and                  *)
(* 2^52 <= m < 2^53, or <<0, <<>>, 0>> for zero.  Exponents are unbounded: *)
(* no input of the model overflows or reaches the subnormal range.         *)
(***************************************************************************)
RECURSIVE Pow2(_)
Pow2(k) == IF k = 0 THEN 1 ELSE 2 * Pow2(k - 1)

LimbBits == 15

Limb == Pow2(LimbBits)

\* The significand of a float64 has 53 bits.
Precision == 53

RECURSIVE IntBitLen(_)
IntBitLen(n) == IF n = 0 THEN 0 ELSE 1 + IntBitLen(n \div 2)

RECURSIVE BNorm(_)
BNorm(x) ==
    IF x = << >> THEN x
    ELSE IF x[Len(x)] = 0 THEN BNorm(SubSeq(x, 1, Len(x) - 1))
    ELSE x

RECURSIVE BFromInt(_)
BFromInt(n) == IF n = 0 THEN << >> ELSE << n % Limb >> \o BFromInt(n \div Limb)

RECURSIVE BAddCarry(_, _, _)
BAddCarry(x, y, c) ==
    IF x = << >> /\ y = << >> THEN (IF c = 0 THEN << >> ELSE << c >>)
    ELSE LET s == (IF x = << >> THEN 0 ELSE Head(x)) + (IF y = << >> THEN 0 ELSE Head(y)) + c
         IN  << s % Limb >> \o BAddCarry(IF x = << >> THEN x ELSE Tail(x),
                                         IF y = << >> THEN y ELSE Tail(y), s \div Limb)

BAdd(x, y) == BAddCarry(x, y, 0)

RECURSIVE BSubBorrow(_, _, _)
BSubBorrow(x, y, b) ==
    IF x = << >> THEN << >>
    ELSE LET d == Head(x) - (IF y = << >> THEN 0 ELSE Head(y)) - b
         IN  << d % Limb >> \o BSubBorrow(Tail(x), IF y = << >> THEN y ELSE Tail(y),
                                          IF d < 0 THEN 1 ELSE 0)

\* x - y for x >= y.
BSub(x, y) == BNorm(BSubBorrow(x, y, 0))

RECURSIVE BCmpFrom(_, _, _)
BCmpFrom(x, y, i) ==
    IF i = 0 THEN 0
    ELSE IF x[i] < y[i] THEN -1
    ELSE IF x[i] > y[i] THEN 1
    ELSE BCmpFrom(x, y, i - 1)

\* -1, 0 or 1 as x < y, x = y or x > y.
BCmp(x, y) ==
    IF Len(x) < Len(y) THEN -1
    ELSE IF Len(x) > Len(y) THEN 1
    ELSE BCmpFrom(x, y, Len(x))

RECURSIVE BMulSmallCarry(_, _, _)
BMulSmallCarry(x, c, carry) ==
    IF x = << >> THEN (IF carry = 0 THEN << >> ELSE << carry >>)
    ELSE LET p == Head(x) * c + carry
         IN  << p % Limb >> \o BMulSmallCarry(Tail(x), c, p \div Limb)

\* x * c for 0 <= c < Limb.
BMulSmall(x, c) == IF c = 0 THEN << >> ELSE BMulSmallCarry(x, c, 0)

RECURSIVE BMul(_, _)
BMul(x, y) ==
    IF x = << >> \/ y = << >> THEN << >>
    ELSE BAdd(BMulSmall(x, Head(y)),
              LET rest == BMul(x, Tail(y)) IN IF rest = << >> THEN rest ELSE << 0 >> \o rest)

\* x * 2^k and floor(x / 2^k).
BShl(x, k) ==
    IF x = << >> THEN x
    ELSE [i \in 1..(k \div LimbBits) |-> 0] \o BMulSmall(x, Pow2(k % LimbBits))

RECURSIVE BShrDigits(_, _)
BShrDigits(x, p) ==
    IF x = << >> THEN x
    ELSE << (Head(x) \div p) + (IF Len(x) > 1 THEN x[2] % p ELSE 0) * (Limb \div p) >>
             \o BShrDigits(Tail(x), p)

BShr(x, k) ==
    BNorm(BShrDigits(SubSeq(x, k \div LimbBits + 1, Len(x)), Pow2(k % LimbBits)))

BBitLen(x) ==
    IF x = << >> THEN 0 ELSE LimbBits * (Len(x) - 1) + IntBitLen(x[Len(x)])

RECURSIVE BDigit(_, _, _, _)
\* The largest c in lo..hi with d * c <= r, where d * lo <= r.
BDigit(r, d, lo, hi) ==
    IF lo = hi THEN lo
    ELSE LET mid == (lo + hi + 1) \div 2
         IN  IF BCmp(BMulSmall(d, mid), r) <= 0 THEN BDigit(r, d, mid, hi)
             ELSE BDigit(r, d, lo, mid - 1)

RECURSIVE BDivMod(_, _)
\* << floor(n / d), n mod d >> for d > 0: long division, a digit at a time.
BDivMod(n, d) ==
    IF n = << >> THEN << n, n >>
    ELSE LET high == BDivMod(Tail(n), d)
             r    == BNorm(<< Head(n) >> \o high[2])
             c    == BDigit(r, d, 0, Limb - 1)
         IN  << BNorm(<< c >> \o high[1]), BSub(r, BMulSmall(d, c)) >>

RECURSIVE BSqrtDigit(_, _, _, _, _)
\* The largest c in lo..hi with (q + c * Limb^j)^2 <= n.
BSqrtDigit(n, q, j, lo, hi) ==
    IF lo = hi THEN lo
    ELSE LET mid  == (lo + hi + 1) \div 2
             cand == BAdd(q, BShl(<< mid >>, j * LimbBits))
         IN  IF BCmp(BMul(cand, cand), n) <= 0 THEN BSqrtDigit(n, q, j, mid, hi)
             ELSE BSqrtDigit(n, q, j, lo, mid - 1)

RECURSIVE BSqrtFrom(_, _, _)
BSqrtFrom(n, q, j) ==
    IF j < 0 THEN q
    ELSE BSqrtFrom(n, BAdd(q, BShl(BFromInt(BSqrtDigit(n, q, j, 0, Limb - 1)), j * LimbBits)),
                   j - 1)

\* floor(sqrt(n)), a digit at a time.
BSqrt(n) == BSqrtFrom(n, << >>, (Len(n) + 1) \div 2 - 1)

F64Zero == << 0, << >>, 0 >>

\* Round to nearest, ties to even: the float nearest to s * (m + f) * 2^e,
\* where 0 <= f < 1 and f > 0 iff sticky (m then has Precision + 2 bits at
\* least).
RoundNearestEven(s, m, e, sticky) ==
    IF m = << >> THEN F64Zero
    ELSE LET shift == BBitLen(m) - Precision
         IN  IF shift <= 0 THEN << s, BShl(m, -shift), e + shift >>
             ELSE LET q    == BShr(m, shift)
                      c    == BCmp(BSub(m, BShl(q, shift)), BShl(<< 1 >>, shift - 1))
                      r    == IF c > 0 \/ (c = 0 /\ (sticky \/ q[1] % 2 = 1))
                              THEN BAdd(q, << 1 >>) ELSE q
                  IN  IF BBitLen(r) > Precision THEN << s, BShr(r, 1), e + shift + 1 >>
                      ELSE << s, r, e + shift >>

\* float(n) for an integer n.
F64Int(n) == RoundNearestEven(IF n < 0 THEN -1 ELSE 1, BFromInt(Abs(n)), 0, FALSE)

F64Neg(x) == << -x[1], x[2], x[3] >>

F64Abs(x) == << Abs(x[1]), x[2], x[3] >>

\* The exact sum x + y as an unrounded triple.
ExactSum(x, y) ==
    IF x[1] = 0 THEN y
    ELSE IF y[1] = 0 THEN x
    ELSE LET e  == Min(x[3], y[3])
             mx == BShl(x[2], x[3] - e)
             my == BShl(y[2], y[3] - e)
             c  == BCmp(mx, my)
         IN  IF x[1] = y[1] THEN << x[1], BAdd(mx, my), e >>
             ELSE IF c = 0 THEN F64Zero
             ELSE IF c > 0 THEN << x[1], BSub(mx, my), e >>
             ELSE << y[1], BSub(my, mx), e >>

F64Add(x, y) == LET v == ExactSum(x, y) IN RoundNearestEven(v[1], v[2], v[3], FALSE)

F64Sub(x, y) == F64Add(x, F64Neg(y))

F64Mul(x, y) == RoundNearestEven(x[1] * y[1], BMul(x[2], y[2]), x[3] + y[3], FALSE)

\* x / y for y # 0: a quotient of Precision + 2 bits at least, and the
\* remainder as the sticky bit.
F64Div(x, y) ==
    IF x[1] = 0 THEN F64Zero
    ELSE LET qr == BDivMod(BShl(x[2], Precision + 2), y[2])
         IN  RoundNearestEven(x[1] * y[1], qr[1], x[3] - y[3] - (Precision + 2),
                              qr[2] # << >>)

\* sqrt(x) for x >= 0.
F64Sqrt(x) ==
    IF x[1] = 0 THEN F64Zero
    ELSE LET odd == x[3] % 2
             n   == BShl(x[2], Precision + 3 + odd)
             r   == BSqrt(n)
         IN  RoundNearestEven(1, r, (x[3] - odd - (Precision + 3)) \div 2, BMul(r, r) # n)

F64Lt(x, y) ==
    LET d == ExactSum(y, F64Neg(x)) IN d[1] > 0

F64Le(x, y) == x = y \/ F64Lt(x, y)

\* The float nearest to the rational p / q, q > 0: the value of a decimal
\* literal such as 0.1.
F64Rat(p, q) == F64Div(F64Int(p), F64Int(q))

(***************************************************************************)
(* The analyzer in float64: compute_spectrum, compute_energy and           *)
(* compute_statistics on waves of two or three float64 samples, computed   *)
(* operation by operation as numpy and scipy compute them, every result    *)
(* rounded.  The grids have two or three instants and t_max 1 or 2: their  *)
(* instants and spacing (0, 1/2, 1, 2) are floats, so the exact grid of    *)
(* Construct is the float64 grid, and n_freq = n_samples // 2 is 1: the    *)
(* only bin kept is bin 0 of the transform.                                *)
(***************************************************************************)
Float64ConfigArgs ==
    { [key \in {"t_max", "n_samples"} |-> IF key = "t_max" THEN tm ELSE ns] :
        tm \in {1, 2}, ns \in {2, 3} }

\* Sample values: -1.0, 1.0, and the floats nearest to 0.1 and 0.7.
Samples64 == { F64Int(-1), F64Int(1), F64Rat(1, 10), F64Rat(7, 10) }

Waves64 == UNION { [1..n -> Samples64] : n \in {2, 3} }

\* Scalars a > 0: the powers of two 0.5, 2.0 and 4.0, and 0.1 and 3.0.
Scalars64 == { F64Rat(1, 2), F64Int(2), F64Int(4), F64Rat(1, 10), F64Int(3) }

\* a * v for a scalar a and an array v.
Scale64(a, v) == [i \in 1..Len(v) |-> F64Mul(a, v[i])]

\* scipy.fft.fft of two or three real samples, up to bin n_freq = 1: bin 0
\* is x0 + x1 (pocketfft radf2), or x0 + (x1 + x2) (radf3).
fft64(w) ==
    << IF Len(w) = 2 THEN F64Add(w[1], w[2]) ELSE F64Add(w[1], F64Add(w[2], w[3])) >>

\* np.max and np.min of a non-empty array.
Amax64(a) == a[CHOOSE i \in 1..Len(a) : \A j \in 1..Len(a) : F64Le(a[j], a[i])]

Amin64(a) == a[CHOOSE i \in 1..Len(a) : \A j \in 1..Len(a) : F64Le(a[i], a[j])]

\* np.abs(spectrum[: self.n_freq]) / self.config["n_samples"]
RawMagnitude64(w) ==
    LET spectrum == fft64(w)
    IN  [i \in 1..n_freq |-> F64Div(F64Abs(spectrum[i]), F64Int(config.n_samples))]

\* Variant: normalizes whatever the flag.
compute_spectrum64_AlwaysNormalized(w, normalize) ==
    LET magnitude == RawMagnitude64(w)
        peak      == Amax64(magnitude)
    IN  IF F64Lt(F64Zero, peak)
        THEN [i \in 1..Len(magnitude) |-> F64Div(magnitude[i], peak)]
        ELSE magnitude

\* compute_spectrum(wave, normalize) in float64.
compute_spectrum64(w, normalize) ==
    LET magnitude == RawMagnitude64(w)
        peak      == Amax64(magnitude)
    IN  IF normalize /\ F64Lt(F64Zero, peak)
        THEN [i \in 1..Len(magnitude) |-> F64Div(magnitude[i], peak)]
        ELSE magnitude

\* a**2, elementwise.
Square64(a) == [i \in 1..Len(a) |-> F64Mul(a[i], a[i])]

RECURSIVE SumUpTo64(_, _)
SumUpTo64(a, n) == IF n = 0 THEN F64Zero ELSE F64Add(SumUpTo64(a, n - 1), a[n])

\* np.sum of fewer than eight floats: they are added one by one, from the
\* first to the last.
Sum64(a) == SumUpTo64(a, Len(a))

\* np.mean: the sum divided by the count.
Mean64(a) == F64Div(Sum64(a), F64Int(Len(a)))

\* np.std: the square root of the mean of the squared deviations from the
\* mean.
Std64(a) ==
    LET mean == Mean64(a)
    IN  F64Sqrt(Mean64(Square64([i \in 1..Len(a) |-> F64Sub(a[i], mean)])))

\* compute_energy(wave) = np.sum(wave**2) * self.dt, with self.dt = num / den
\* as the float it is.
compute_energy64(w) == F64Mul(Sum64(Square64(w)), F64Rat(dt[1], dt[2]))

\* Variant: peak_to_peak is the largest absolute value.
compute_statistics64_AbsPeak(w) ==
    [mean         |-> Mean64(w),
     std          |-> Std64(w),
     min          |-> Amin64(w),
     max          |-> Amax64(w),
     peak_to_peak |-> Amax64([i \in 1..Len(w) |-> F64Abs(w[i])]),
     rms          |-> F64Sqrt(Mean64(Square64(w))),
     energy       |-> compute_energy64(w)]

\* compute_statistics(wave) in float64.
compute_statistics64(w) ==
    [mean         |-> Mean64(w),
     std          |-> Std64(w),
     min          |-> Amin64(w),
     max          |-> Amax64(w),
     peak_to_peak |-> F64Sub(Amax64(w), Amin64(w)),
     rms          |-> F64Sqrt(Mean64(Square64(w))),
     energy       |-> compute_energy64(w)]

ComputeSpectrum64(normalize) ==
    /\ pc = "loaded"
    /\ pc' = "returned"
    /\ call' = [op |-> "compute_spectrum", normalize |-> normalize]
    /\ result' = compute_spectrum64(wave, normalize)
    /\ raised' = "none"
    /\ UNCHANGED << grid, wave >>

ComputeEnergy64 ==
    /\ pc = "loaded"
    /\ pc' = "returned"
    /\ call' = [op |-> "compute_energy"]
    /\ result' = compute_energy64(wave)
    /\ raised' = "none"
    /\ UNCHANGED << grid, wave >>

ComputeStatistics64 ==
    /\ pc = "loaded"
    /\ pc' = "returned"
    /\ call' = [op |-> "compute_statistics"]
    /\ result' = compute_statistics64(wave)
    /\ raised' = "none"
    /\ UNCHANGED << grid, wave >>

Float64Next ==
    \/ \E arg \in Float64ConfigArgs : Construct(arg)
    \/ \E w \in Waves64 : LoadWave(w)
    \/ \E normalize \in BOOLEAN : ComputeSpectrum64(normalize)
    \/ ComputeEnergy64
    \/ ComputeStatistics64
    \/ Return
    \/ Release

Float64Spec == Init /\ [][Float64Next]_vars

(***************************************************************************)
(* Vocabulary of the properties.                                           *)
(***************************************************************************)
Returned(op) == pc = "returned" /\ call.op = op

\* The wave has one sample per instant of the grid.
OnGrid(w) == Len(w) = config.n_samples

\* A power of two: the significand is 2^52.
IsPowerOfTwo(a) == a[1] = 1 /\ a[2] = BShl(<< 1 >>, Precision - 1)

\* The natural number m has more than Precision significant bits: a float
\* of significand m is rounded.
Inexact(m) ==
    LET shift == BBitLen(m) - Precision
    IN  shift > 0 /\ BShl(BShr(m, shift), shift) # m

\* Some addition of np.sum(a) rounds.
SumRounds(a) ==
    \E n \in 2..Len(a) : Inexact(ExactSum(SumUpTo64(a, n - 1), a[n])[2])

AllZero(w) == \A i \in 1..Len(w) : w[i] = 0

\* The numbers x and y are equal (a nan is equal to nothing).
REq(x, y) == x # NaN /\ y # NaN /\ x = y

\* The normalized spectra the transform may give for the current wave.
NormalizedSpectra == compute_spectrum(wave, TRUE)

\* The width of a frequency bin, 1/(n_samples*dt).
BinWidth == RDiv(RInt(1), RMul(RInt(config.n_samples), dt))

\* The DFT bins whose frequency lies in the restricted sub-range
\* freq_positive[min_idx:max_idx] (freq_positive[j] is the frequency of bin j+1).
SubRangeBins(min_freq, max_freq) ==
    { j + 1 : j \in min_idx(min_freq)..(max_idx(max_freq) - 1) }

\* Bin k holds the maximum of spectrum s over the bins of set B.
IsMaxOver(s, k, B) == k \in B /\ \A j \in B : MagLe(At(s, j), At(s, k))

(***************************************************************************)
(* C1.  When the restricted sub-range is not empty, the pair (f, m) that   *)
(* find_dominant_frequency returns refers to one DFT bin k: k has the      *)
(* greatest raw magnitude among the bins of the sub-range, f = freq[k]     *)
(* and m = raw spectrum[k].                                                *)
(***************************************************************************)
C1_DominantPairIsOneBin ==
    (Returned("find_dominant_frequency") /\ OnGrid(wave)
        /\ SubRangeBins(call.min_freq, call.max_freq) # {})
    => /\ raised = "none"
       /\ LET raw == RawMagnitude(wave)
              B   == SubRangeBins(call.min_freq, call.max_freq)
          IN  \E k \in B :
                 /\ IsMaxOver(raw, k, B)
                 /\ result[1] = At(freq, k)
                 /\ MagEq(result[2], At(raw, k))

(***************************************************************************)
(* C2.  With the default search range, when the raw spectrum of the wave   *)
(* has its only maximum at the bin nearest to a frequency f >= min_freq,   *)
(* find_dominant_frequency returns a frequency within one bin width of f.  *)
(* f ranges over the bin frequencies and the points a quarter of a bin     *)
(* below and above them.                                                   *)
(***************************************************************************)
QuarterOffsets == {Rat(-1, 4), RZero, Rat(1, 4)}

UniqueMaxAt(s, k) ==
    \A j \in 0..(Len(s) - 1) : j # k => MagLt(At(s, j), At(s, k))

C2_SinusoidWithinOneBin ==
    (Returned("find_dominant_frequency") /\ OnGrid(wave)
        /\ call.min_freq = RInt(1) /\ call.max_freq = None)
    => \A k \in 1..(n_freq - 1), off \in QuarterOffsets :
          LET f == RAdd(At(freq, k), RMul(off, BinWidth))
          IN  (RLe(call.min_freq, f) /\ UniqueMaxAt(RawMagnitude(wave), k))
              => /\ raised = "none"
                 /\ RLe(RAbs(RSub(result[1], f)), BinWidth)

(***************************************************************************)
(* C3.  A call with a wave whose length differs from n_samples is          *)
(* rejected with an error: it never returns a result.                      *)
(***************************************************************************)
C3_LengthMismatchRejected ==
    (pc = "returned" /\ ~OnGrid(wave)) => raised # "none"

(***************************************************************************)
(* C4.  A constructor call with t_max <= 0 or n_samples < 2 fails, and     *)
(* leaves none of t, dt, n_freq, freq, freq_positive set on the object.    *)
(***************************************************************************)
GridAttributes == {"t", "dt", "n_freq", "freq", "freq_positive"}

C4_InvalidConfigBuildsNothing ==
    (pc # "new" /\ ~ValidConfig(config))
    => (pc = "failed" /\ raised # "none" /\ attrs \cap GridAttributes = {})

(***************************************************************************)
(* C5.  The normalized spectrum of a wave of length n_samples that is not  *)
(* all-zero has all its values in [0, 1] and its maximum equal to 1.       *)
(***************************************************************************)
MagOne == << ZInt(1), ZInt(1) >>

InUnitRange(s) == \A i \in 1..Len(s) : MagLe(MagZero, s[i]) /\ MagLe(s[i], MagOne)

MaxIsOne(s) == \E i \in 1..Len(s) : MagEq(s[i], MagOne)

C5_NormalizedMaxIsOne ==
    (Returned("compute_spectrum") /\ call.normalize /\ OnGrid(wave) /\ ~AllZero(wave))
    => (Len(result) = n_freq /\ InUnitRange(result) /\ MaxIsOne(result))

\* Some DFT bin among the kept ones, 0 .. floor(n_samples/2)-1, is not zero.
HasKeptBin(w) ==
    \E k \in 0..(Min(n_freq, Len(w)) - 1) : At(fft(w), k) # << ZInt(0), ZInt(0) >>

\* C5 as amended: the normalized spectrum of a wave of length n_samples with
\* a non-zero DFT bin among bins 0 .. floor(n_samples/2)-1 has all its values
\* in [0, 1] and its maximum equal to 1.
C5_NormalizedMaxIsOneIfKeptBin ==
    (Returned("compute_spectrum") /\ call.normalize /\ OnGrid(wave) /\ HasKeptBin(wave))
    => (Len(result) = n_freq /\ InUnitRange(result) /\ MaxIsOne(result))

C5_Witness ==
    /\ Returned("compute_spectrum") /\ call.normalize /\ OnGrid(wave) /\ HasKeptBin(wave)
    /\ config.n_samples = 12
    /\ \E i \in 1..Len(result) : MagLt(MagZero, result[i]) /\ MagLt(result[i], MagOne)

(***************************************************************************)
(* C6.  compute_spectrum(wave, normalize=True) of the all-zero wave        *)
(* returns the all-zero spectrum and raises nothing.                       *)
(***************************************************************************)
C6_ZeroWaveZeroSpectrum ==
    (Returned("compute_spectrum") /\ call.normalize /\ AllZero(wave))
    => /\ raised = "none"
       /\ Len(result) = Min(n_freq, Len(wave))
       /\ \A i \in 1..Len(result) : MagIsZero(result[i])

C6_Witness ==
    /\ Returned("compute_spectrum") /\ call.normalize /\ AllZero(wave) /\ OnGrid(wave)
    /\ Len(result) > 1

(***************************************************************************)
(* C7.  Raw mode is homogeneous: compute_spectrum(a*wave, normalize=False) *)
(* is a * compute_spectrum(wave, normalize=False), element by element, for *)
(* every wave and every scalar a > 0.                                      *)
(***************************************************************************)
C7_RawSpectrumHomogeneous ==
    (Returned("compute_spectrum") /\ ~call.normalize)
        => \A a \in Scalars64 :
              compute_spectrum64(Scale64(a, wave), FALSE) = Scale64(a, result)

\* C7, for the scalars that are powers of two: compute_spectrum(a*wave,
\* normalize=False) is a * compute_spectrum(wave, normalize=False), element
\* by element, for every wave and every scalar a = 2^k.
C7_RawSpectrumHomogeneousPowerOfTwo ==
    (Returned("compute_spectrum") /\ ~call.normalize)
        => \A a \in { b \in Scalars64 : IsPowerOfTwo(b) } :
              compute_spectrum64(Scale64(a, wave), FALSE) = Scale64(a, result)

\* A raw spectrum of a wave on the grid whose transform has rounded, and
\* whose multiple by 4 is the spectrum of 4 * wave and differs from it.
C7_Witness ==
    /\ Returned("compute_spectrum") /\ ~call.normalize /\ OnGrid(wave)
    /\ SumRounds(wave)
    /\ F64Int(4) \in Scalars64 /\ IsPowerOfTwo(F64Int(4))
    /\ compute_spectrum64(Scale64(F64Int(4), wave), FALSE) = Scale64(F64Int(4), result)
    /\ Scale64(F64Int(4), result) # result

(***************************************************************************)
(* C8.  A result (low, high, bandwidth) of compute_bandwidth other than    *)
(* the sentinel (0, 0, 0) has low <= high and bandwidth = high - low.      *)
(***************************************************************************)
Sentinel3 == << RZero, RZero, RZero >>

C8_BandwidthOrdered ==
    (Returned("compute_bandwidth") /\ result # Sentinel3)
    => (RLe(result[1], result[2]) /\ REq(result[3], RSub(result[2], result[1])))

(***************************************************************************)
(* C9.  compute_bandwidth with a threshold above 1 returns the sentinel    *)
(* (0, 0, 0) for every wave.                                               *)
(***************************************************************************)
C9_ThresholdAboveOneGivesSentinel ==
    (Returned("compute_bandwidth") /\ RLt(RInt(1), call.threshold))
    => result = Sentinel3

C9_Witness ==
    /\ Returned("compute_bandwidth") /\ RLt(RInt(1), call.threshold) /\ OnGrid(wave)
    /\ Len(freq_positive) > 1
    /\ ~AllZero(wave)
    /\ result = Sentinel3

(***************************************************************************)
(* C10.  If exactly one bin i of the normalized spectrum of the wave is at *)
(* or above the threshold 0.8, compute_bandwidth(wave) returns             *)
(* (freq[i], freq[i], 0).                                                  *)
(***************************************************************************)
DefaultThreshold == Rat(4, 5)

\* The bins of the normalized spectrum s at or above the threshold.
BinsAtOrAbove(s, threshold) ==
    { i \in 0..(Len(s) - 1) : MagGeRat(At(s, i), threshold) }

C10_SingleBinBandwidth ==
    (Returned("compute_bandwidth") /\ OnGrid(wave) /\ call.threshold = DefaultThreshold)
    => \E s \in NormalizedSpectra :
          \A i \in 0..(n_freq - 1) :
             BinsAtOrAbove(s, DefaultThreshold) = {i}
             => result = << At(freq, i), At(freq, i), RZero >>

\* The peaks find_multiple_peaks detects in the normalized spectrum for the
\* current call, before it sorts them: the local maxima at or above height
\* of the slice it examines, each with its 0-based position in the slice,
\* the frequency reported for it and its magnitude.
PeaksAbove(spectrum, height) ==
    LET lo         == min_idx(call.min_freq)
        freq_range == Slice(freq_positive, lo, max_idx(call.max_freq))
        band       == Slice(spectrum, lo, lo + Len(freq_range))
    IN  { [pos |-> p, freq |-> At(freq_range, p), value |-> At(band, p)] :
            p \in { q \in LocalMaxima(band) : MagGeRat(At(band, q), height) } }

DetectedPeaks(spectrum) == PeaksAbove(spectrum, call.height)

\* C11: for every wave and every n_peaks >= 0, min_freq, max_freq and height,
\* find_multiple_peaks returns at most n_peaks entries, and the sequence of
\* frequencies and the sequence of magnitudes it returns have the same length.
C11_AtMostNPeaks ==
    Returned("find_multiple_peaks")
        => /\ Len(result[1]) <= call.n_peaks
           /\ Len(result[1]) = Len(result[2])

\* More peaks were detected than were asked for, and the answer was cut.
C11_Witness ==
    /\ Returned("find_multiple_peaks") /\ OnGrid(wave)
    /\ call.n_peaks = 2
    /\ Len(result[1]) = 2 /\ Len(result[2]) = 2
    /\ \E spectrum \in NormalizedSpectra : Cardinality(DetectedPeaks(spectrum)) > 2

\* C12: the magnitudes returned by find_multiple_peaks are in descending
\* order, strictly so when the detected peaks have distinct magnitudes, and
\* they are the n_peaks largest of the detected peaks: the returned entries
\* are distinct detected peaks, as many as n_peaks allows, and no detected
\* peak that was left out is greater than a returned one.
C12_LargestPeaksDescending ==
    Returned("find_multiple_peaks")
        => \E spectrum \in NormalizedSpectra :
              LET detected == DetectedPeaks(spectrum)
                  freqs    == result[1]
                  values   == result[2]
                  r        == Len(values)
              IN  /\ r = Min(call.n_peaks, Cardinality(detected))
                  /\ \E kept \in [1..r -> detected] :
                        /\ \A i, j \in 1..r : i # j => kept[i] # kept[j]
                        /\ \A j \in 1..r :
                              freqs[j] = kept[j].freq /\ values[j] = kept[j].value
                        /\ \A d \in detected \ { kept[j] : j \in 1..r } :
                              \A j \in 1..r : ~MagLt(values[j], d.value)
                  /\ \A j \in 1..(r - 1) : MagLe(values[j + 1], values[j])
                  /\ (\A d, e \in detected : d # e => ~MagEq(d.value, e.value))
                         => \A j \in 1..(r - 1) : MagLt(values[j + 1], values[j])

\* Three peaks were detected, two were returned, the larger first, and the
\* peak left out is no larger than either.
C12_Witness ==
    /\ Returned("find_multiple_peaks") /\ OnGrid(wave)
    /\ call.n_peaks = 2
    /\ Len(result[2]) = 2
    /\ MagLt(result[2][2], result[2][1])
    /\ \E spectrum \in NormalizedSpectra :
          LET detected == DetectedPeaks(spectrum)
          IN  /\ Cardinality(detected) = 3
              /\ \E d \in detected :
                     /\ \A j \in 1..2 : result[1][j] # d.freq
                     /\ MagLe(d.value, result[2][2])

\* The arguments of the current call leave no bin in the search sub-range.
EmptySubRange ==
    \/ SubRangeBins(call.min_freq, call.max_freq) = {}
    \/ (call.max_freq # None /\ RLe(call.max_freq, call.min_freq))
    \/ \A j \in 1..Len(freq_positive) : RLt(freq_positive[j], call.min_freq)
    \/ Len(freq_positive) <= 1

\* C13: when min_freq and max_freq leave no bin in the search sub-range
\* (max_freq <= min_freq, min_freq above the highest bin and grids with at
\* most one positive-frequency bin included), find_dominant_frequency returns
\* the sentinel (0, 0) and find_multiple_peaks returns a pair of empty
\* sequences, and neither raises; find_multiple_peaks also returns a pair of
\* empty sequences when no peak meets the height threshold.
C13_EmptySubRangeGivesSentinel ==
    /\ (Returned("find_dominant_frequency") /\ EmptySubRange)
           => (raised = "none" /\ result = << RZero, MagZero >>)
    /\ (Returned("find_multiple_peaks") /\ EmptySubRange)
           => (raised = "none" /\ result = << << >>, << >> >>)
    /\ (Returned("find_multiple_peaks")
           /\ \A spectrum \in NormalizedSpectra : DetectedPeaks(spectrum) = {})
           => (raised = "none" /\ result = << << >>, << >> >>)

\* max_freq <= min_freq on a grid with several bins, for a wave that has a
\* component in them.
C13_Witness ==
    /\ Returned("find_dominant_frequency") /\ OnGrid(wave) /\ ~AllZero(wave)
    /\ Len(freq_positive) >= 2
    /\ call.max_freq # None /\ RLe(call.max_freq, call.min_freq)
    /\ RLe(call.min_freq, freq_positive[Len(freq_positive)])
    /\ result = << RZero, MagZero >>

\* The sub-range holds local maxima of the spectrum, none of which reaches
\* the height.
C13_WitnessBelowHeight ==
    /\ Returned("find_multiple_peaks") /\ OnGrid(wave)
    /\ \A spectrum \in NormalizedSpectra : DetectedPeaks(spectrum) = {}
    /\ \E spectrum \in NormalizedSpectra : PeaksAbove(spectrum, RZero) # {}
    /\ result = << << >>, << >> >>

\* C14: for every valid construction (t_max > 0, n_samples >= 2) freq has
\* floor(n_samples / 2) entries, freq[0] is the DC bin with value 0, freq is
\* strictly ascending, and freq_positive is freq without its first entry:
\* len(freq_positive) = len(freq) - 1 and freq_positive[j] = freq[j + 1].
C14_GridInvariant ==
    (pc # "new" /\ ValidConfig(config))
        => /\ pc # "failed"
           /\ Len(freq) = config.n_samples \div 2
           /\ At(freq, 0) = RZero
           /\ \A j \in 0..(Len(freq) - 2) : RLt(At(freq, j), At(freq, j + 1))
           /\ Len(freq_positive) = Len(freq) - 1
           /\ \A j \in 0..(Len(freq_positive) - 1) : At(freq_positive, j) = At(freq, j + 1)

\* A constructed grid with several positive bins, one bin width apart.
C14_Witness ==
    /\ pc = "idle" /\ ValidConfig(config)
    /\ Len(freq) >= 3
    /\ Len(freq_positive) >= 2
    /\ At(freq_positive, 0) = RDiv(RInt(1), RMul(RInt(config.n_samples), dt))
    /\ At(freq_positive, 1) = RMul(RInt(2), At(freq_positive, 0))

StatisticsKeys == {"mean", "std", "min", "max", "peak_to_peak", "rms", "energy"}

\* C16: for every non-empty wave, compute_statistics returns a mapping with
\* exactly the seven keys mean, std, min, max, peak_to_peak, rms and energy,
\* in which peak_to_peak = max - min, min <= mean <= max and energy is
\* compute_energy(wave).
C16_StatisticsMapping ==
    Returned("compute_statistics")
        => /\ raised = "none"
           /\ DOMAIN result = StatisticsKeys
           /\ result.peak_to_peak = F64Sub(result.max, result.min)
           /\ F64Le(result.min, result.mean) /\ F64Le(result.mean, result.max)
           /\ result.energy = compute_energy64(wave)

\* C16, with the bounds of the mean for the waves whose sum is exact: for
\* every non-empty wave, compute_statistics returns a mapping with exactly the
\* seven keys, in which peak_to_peak = max - min and energy is
\* compute_energy(wave), and min <= mean <= max if no addition of
\* np.sum(wave) rounds.
C16_StatisticsMappingExactSum ==
    Returned("compute_statistics")
        => /\ raised = "none"
           /\ DOMAIN result = StatisticsKeys
           /\ result.peak_to_peak = F64Sub(result.max, result.min)
           /\ ~SumRounds(wave)
                 => F64Le(result.min, result.mean) /\ F64Le(result.mean, result.max)
           /\ result.energy = compute_energy64(wave)

\* A wave with samples of both signs and an exact sum, whose mean lies strictly between its extremes, and whose peak-to-peak
\* exceeds its maximum.
C16_Witness ==
    /\ Returned("compute_statistics") /\ OnGrid(wave)
    /\ ~SumRounds(wave)
    /\ F64Lt(result.min, F64Zero) /\ F64Lt(F64Zero, result.max)
    /\ F64Lt(result.min, result.mean) /\ F64Lt(result.mean, result.max)
    /\ F64Lt(result.max, result.peak_to_peak)
    /\ F64Lt(F64Zero, result.energy)

RECURSIVE SumOfSquares(_)
SumOfSquares(w) == IF w = << >> THEN 0 ELSE Head(w) * Head(w) + SumOfSquares(Tail(w))

\* The wave is on the grid and has the same amplitude A at every instant.
IsConstant(w, A) == OnGrid(w) /\ \A i \in 1..Len(w) : w[i] = A

\* C17: compute_energy(wave) is dt times the sum of the squared amplitudes,
\* with dt = t_max / (n_samples - 1); for a constant wave of amplitude A on
\* the grid it is A^2 * t_max * n_samples / (n_samples - 1), which exceeds
\* A^2 * t_max by A^2 * t_max / (n_samples - 1) and so tends to it as
\* n_samples grows; it is strictly positive for a wave that is not all-zero.
C17_EnergyIsDtTimesSquares ==
    Returned("compute_energy")
        => LET n    == config.n_samples
               step == Rat(config.t_max, n - 1)
           IN  /\ raised = "none"
               /\ dt = step
               /\ result = RMul(RInt(SumOfSquares(wave)), step)
               /\ \A A \in -4..4 :
                      IsConstant(wave, A)
                          => /\ result = Rat(A * A * config.t_max * n, n - 1)
                             /\ RSub(result, RInt(A * A * config.t_max))
                                    = Rat(A * A * config.t_max, n - 1)
               /\ ~AllZero(wave) => RLt(RZero, result)

AnalysisOperations ==
    {"compute_spectrum", "find_dominant_frequency", "find_multiple_peaks",
     "compute_bandwidth", "compute_energy", "compute_statistics"}

\* C15: every analysis operation (compute_spectrum, find_dominant_frequency,
\* find_multiple_peaks, compute_bandwidth, compute_energy, compute_statistics),
\* in any sequence and with any arguments, leaves the grid state (config, t,
\* dt, n_freq, freq, freq_positive) unchanged and does not modify the
\* caller's wave: from the loading of a wave until its release, no call and
\* no return changes them.
C15_OperationsAreReadOnly ==
    [][(pc \in {"loaded", "returned"} /\ pc' \in {"loaded", "returned"})
          => /\ pc' = "returned" => call'.op \in AnalysisOperations
             /\ grid' = grid
             /\ wave' = wave]_vars

\* An operation has returned on a wave that is not its own square, with the
\* grid as the constructor computed it.
C15_Witness ==
    /\ Returned("compute_energy") /\ OnGrid(wave)
    /\ \E i \in 1..Len(wave) : wave[i] * wave[i] # wave[i]
    /\ t = Linspace(RInt(config.t_max), config.n_samples)
    /\ freq_positive = FilterPositive(freq) /\ Len(freq_positive) >= 2

Generated(op) == pc = "generated" /\ call.op = op

GeneratorFunctions == {"half_sine_wave", "square_wave", "triangle_wave"}

\* C18: for every time vector t and every width > 0, half_sine_wave,
\* square_wave and triangle_wave return a vector of the length of t whose
\* entry is 0 at every instant t[i] > width and at every instant t[i] < 0;
\* square_wave is exactly 1 at every instant with 0 <= t[i] <= width.
C18_ZeroOutsideThePulse ==
    (pc = "generated" /\ call.op \in GeneratorFunctions)
        => /\ Len(result) = Len(call.t)
           /\ \A i \in 1..Len(call.t) :
                  (RLt(call.width, call.t[i]) \/ RLt(call.t[i], RZero)) => result[i] = RZero
           /\ Generated("square_wave")
                  => \A i \in 1..Len(call.t) :
                         (RLe(RZero, call.t[i]) /\ RLe(call.t[i], call.width))
                             => result[i] = RInt(1)

\* A half sine over a time vector with instants before 0, inside the pulse
\* and after it.
C18_Witness ==
    /\ Generated("half_sine_wave")
    /\ \E i \in 1..Len(call.t) : RLt(call.t[i], RZero) /\ result[i] = RZero
    /\ \E i \in 1..Len(call.t) : RLt(call.width, call.t[i]) /\ result[i] = RZero
    /\ \E i \in 1..Len(call.t) : RLt(RZero, call.t[i]) /\ RLt(call.t[i], call.width)
                                      /\ result[i] # RZero

\* C19: for every time vector t and every width > 0, every value of
\* triangle_wave(t, width) lies in [0, 1], the value at t = width / 2 is
\* exactly 1, and so the max, min and peak_to_peak statistics of a triangle
\* wave satisfy max <= 1, min >= 0 and peak_to_peak <= 1.
C19_TriangleInUnitInterval ==
    Generated("triangle_wave")
        => /\ \A i \in 1..Len(result) :
                  /\ RLe(RZero, result[i]) /\ RLe(result[i], RInt(1))
                  /\ call.t[i] = RDiv(call.width, RInt(2)) => result[i] = RInt(1)
           /\ RLe(Amax(result), RInt(1))
           /\ RLe(RZero, Amin(result))
           /\ RLe(RSub(Amax(result), Amin(result)), RInt(1))

\* A triangle sampled before 0, on its rising edge, at its apex, on its
\* falling edge and after its end.
C19_Witness ==
    /\ Generated("triangle_wave")
    /\ \E i \in 1..Len(call.t) : RLt(call.t[i], RZero)
    /\ \E i \in 1..Len(call.t) : call.t[i] = RDiv(call.width, RInt(2)) /\ result[i] = RInt(1)
    /\ \E i \in 1..Len(call.t) :
           /\ RLt(RDiv(call.width, RInt(2)), call.t[i]) /\ RLt(call.t[i], call.width)
           /\ RLt(RZero, result[i]) /\ RLt(result[i], RInt(1))
    /\ \E i \in 1..Len(call.t) :
           /\ RLt(RZero, call.t[i]) /\ RLt(call.t[i], RDiv(call.width, RInt(2)))
           /\ RLt(RZero, result[i]) /\ RLt(result[i], RInt(1))
    /\ \E i \in 1..Len(call.t) : RLt(call.width, call.t[i])

\* The indices 1 .. len(freq_positive) of the normalized spectrum whose
\* entry is at or above the threshold of the current call.
QualifyingBins(spectrum) ==
    { k \in 1..Len(freq_positive) : MagGeRat(At(spectrum, k), call.threshold) }

\* C20: compute_bandwidth examines exactly the entries 1 .. len(freq_positive)
\* of the normalized spectrum, entry k going with freq_positive[k - 1] and
\* the DC entry 0 being ignored; it returns (0, 0, 0) if and only if none of
\* them is >= threshold, and otherwise the frequencies of the first and of
\* the last qualifying entry (and their difference), contiguous or not.
C20_BandwidthFirstToLast ==
    (Returned("compute_bandwidth") /\ OnGrid(wave))
        => \E spectrum \in NormalizedSpectra :
              LET Q == QualifyingBins(spectrum)
              IN  /\ raised = "none"
                  /\ (result = Sentinel3) <=> (Q = {})
                  /\ Q # {} => result = << At(freq_positive, SetMin(Q) - 1),
                                           At(freq_positive, SetMax(Q) - 1),
                                           RSub(At(freq_positive, SetMax(Q) - 1),
                                                At(freq_positive, SetMin(Q) - 1)) >>

\* Two separate bins qualify, with bins between them that do not.
C20_Witness ==
    /\ Returned("compute_bandwidth") /\ OnGrid(wave)
    /\ \E spectrum \in NormalizedSpectra :
          LET Q == QualifyingBins(spectrum)
          IN  /\ Cardinality(Q) >= 2
              /\ \E k \in SetMin(Q)..SetMax(Q) : k \notin Q
              /\ result[3] = RSub(At(freq, SetMax(Q)), At(freq, SetMin(Q)))

\* The DC entry is at or above the threshold and no other entry is.
C20_WitnessDCIgnored ==
    /\ Returned("compute_bandwidth") /\ OnGrid(wave)
    /\ Len(freq_positive) >= 2
    /\ \A spectrum \in NormalizedSpectra :
          /\ MagGeRat(At(spectrum, 0), call.threshold)
          /\ QualifyingBins(spectrum) = {}
    /\ result = Sentinel3

\* The entries of spectrum s at the DFT bins of the restricted sub-range
\* (min_freq <= frequency < max_freq, the first positive bin left out), in
\* ascending order of frequency.
SubRangeMagnitudes(s, min_freq, max_freq) ==
    Slice(s, min_idx(min_freq) + 1, max_idx(max_freq) + 1)

\* C21: in find_dominant_frequency and find_multiple_peaks the magnitudes
\* that are compared are exactly those of the positive-frequency bins, other
\* than the first, whose frequency is >= min_freq and (if max_freq is given)
\* < max_freq.  A bin outside that range never influences the result and
\* every bin inside it, the highest bin of the grid included when max_freq
\* is None, is a candidate: the magnitude find_dominant_frequency returns is
\* the greatest raw magnitude of those bins, and the magnitudes
\* find_multiple_peaks returns are those of the peaks among those bins.
C21_ComparedBinsAreTheSubRange ==
    /\ (Returned("find_dominant_frequency") /\ OnGrid(wave)
           /\ SubRangeBins(call.min_freq, call.max_freq) # {})
          => /\ raised = "none"
             /\ LET raw == RawMagnitude(wave)
                    B   == SubRangeBins(call.min_freq, call.max_freq)
                IN  \E k \in B : IsMaxOver(raw, k, B) /\ MagEq(result[2], At(raw, k))
    /\ (Returned("find_multiple_peaks") /\ OnGrid(wave)
           /\ SubRangeBins(call.min_freq, call.max_freq) # {})
          => \E spectrum \in NormalizedSpectra :
                LET band  == SubRangeMagnitudes(spectrum, call.min_freq, call.max_freq)
                    peaks == { p \in LocalMaxima(band) :
                                 MagGeRat(At(band, p), call.height) }
                IN  /\ Len(result[2]) = Min(call.n_peaks, Cardinality(peaks))
                    /\ \A j \in 1..Len(result[2]) :
                           \E p \in peaks : MagEq(result[2][j], At(band, p))

\* C22: find_dominant_frequency never selects the first positive-frequency
\* bin (DFT bin 1, frequency freq_positive[0]): for every wave and every
\* min_freq, also one at or below that frequency, the returned frequency is
\* not freq_positive[0] and the magnitude of that bin is not among those the
\* argmax compares, so the returned magnitude is the raw magnitude of a DFT
\* bin from 2 upwards.
C22_FirstPositiveBinNeverSelected ==
    (Returned("find_dominant_frequency") /\ OnGrid(wave) /\ Len(freq_positive) >= 1)
        => /\ raised = "none"
           /\ result[1] # At(freq_positive, 0)
           /\ LET raw == RawMagnitude(wave)
              IN  \/ result = << RZero, MagZero >>
                  \/ \E k \in 2..(n_freq - 1) : MagEq(result[2], At(raw, k))

\* The bins of set B at which spectrum s has its maximum over B.
MaxBins(s, B) == { k \in B : IsMaxOver(s, k, B) }

\* C23: when several bins of the search sub-range share the maximum raw
\* magnitude, find_dominant_frequency returns the first of them, the one
\* with the lowest frequency, together with that maximum.
C23_TieGoesToLowestFrequency ==
    (Returned("find_dominant_frequency") /\ OnGrid(wave))
    => LET raw  == RawMagnitude(wave)
           ties == MaxBins(raw, SubRangeBins(call.min_freq, call.max_freq))
       IN  Cardinality(ties) >= 2
           => /\ raised = "none"
              /\ result[1] = At(freq, SetMin(ties))
              /\ MagEq(result[2], At(raw, SetMin(ties)))

\* The slice of the normalized spectrum in which find_multiple_peaks looks
\* for the peaks of the current call, and the frequencies it reports for the
\* positions of that slice.
ExaminedBand(spectrum) ==
    LET lo == min_idx(call.min_freq)
    IN  Slice(spectrum, lo, lo + Len(Slice(freq_positive, lo, max_idx(call.max_freq))))

ReportedFrequencies ==
    Slice(freq_positive, min_idx(call.min_freq), max_idx(call.max_freq))

\* Position p (0-based) of band has both neighbours in band and a magnitude
\* strictly greater than theirs.
StrictPeak(band, p) ==
    /\ 1 <= p /\ p <= Len(band) - 2
    /\ MagLt(At(band, p - 1), At(band, p))
    /\ MagLt(At(band, p + 1), At(band, p))

\* Positions l..r of band are a run of equal magnitudes with a strictly
\* smaller sample right before it and right after it, both inside band.
MaximalRun(band, l, r) ==
    /\ 1 <= l /\ l <= r /\ r <= Len(band) - 2
    /\ \A i \in l..r : MagEq(At(band, i), At(band, l))
    /\ MagLt(At(band, l - 1), At(band, l))
    /\ MagLt(At(band, r + 1), At(band, r))

\* C24 as stated: every peak find_multiple_peaks returns is a position of the
\* restricted sub-range with both neighbours inside it, whose normalized
\* magnitude is strictly greater than that of both neighbours and at least
\* height; plateaus of equal values are not reported.
C24_PeaksStrictlyAboveNeighbours ==
    (Returned("find_multiple_peaks") /\ OnGrid(wave))
    => \E spectrum \in NormalizedSpectra :
          LET band == ExaminedBand(spectrum)
              fr   == ReportedFrequencies
          IN  \A j \in 1..Len(result[1]) :
                 \E p \in 0..(Len(band) - 1) :
                    /\ result[1][j] = At(fr, p)
                    /\ MagEq(result[2][j], At(band, p))
                    /\ StrictPeak(band, p)
                    /\ MagGeRat(At(band, p), call.height)

\* C24 amended: every peak find_multiple_peaks returns is the middle
\* position (l + r) div 2 of a run l..r of equal normalized magnitudes of
\* the examined slice that has a strictly smaller sample right before and
\* right after it inside the slice (so the run never touches the first or
\* the last position), and its magnitude is at least height.  A run of one
\* position is a strict peak; a longer run is a plateau, reported once.
C24_PeaksAreMaximalRuns ==
    (Returned("find_multiple_peaks") /\ OnGrid(wave))
    => \E spectrum \in NormalizedSpectra :
          LET band == ExaminedBand(spectrum)
              fr   == ReportedFrequencies
          IN  \A j \in 1..Len(result[1]) :
                 \E l \in 1..(Len(band) - 2) :
                    \E r \in l..(Len(band) - 2) :
                       /\ MaximalRun(band, l, r)
                       /\ result[1][j] = At(fr, (l + r) \div 2)
                       /\ MagEq(result[2][j], At(band, l))
                       /\ MagGeRat(At(band, l), call.height)

\* A call that returns a plateau of two or more positions, at its middle,
\* with a magnitude at or above height.
C24_Witness ==
    /\ Returned("find_multiple_peaks") /\ OnGrid(wave)
    /\ \E spectrum \in NormalizedSpectra :
          LET band == ExaminedBand(spectrum)
              fr   == ReportedFrequencies
          IN  \E j \in 1..Len(result[1]) :
                 \E l \in 1..(Len(band) - 2) :
                    \E r \in (l + 1)..(Len(band) - 2) :
                       /\ MaximalRun(band, l, r)
                       /\ result[1][j] = At(fr, (l + r) \div 2)
                       /\ MagEq(result[2][j], At(band, l))
                       /\ MagGeRat(result[2][j], call.height)

\* C25: the two sequences find_multiple_peaks returns are parallel per DFT
\* bin: for every position i, frequencies[i] is the frequency freq[k] of the
\* very bin k whose normalized spectrum magnitude is magnitudes[i].
C25_PeakPairsAreOneBin ==
    (Returned("find_multiple_peaks") /\ OnGrid(wave))
    => /\ raised = "none"
       /\ \E spectrum \in NormalizedSpectra :
             \A i \in 1..Len(result[1]) :
                \E k \in 1..(n_freq - 1) :
                   /\ result[1][i] = At(freq, k)
                   /\ MagEq(result[2][i], At(spectrum, k))

\* C26: the analyzer keeps no per-waveform state.  Whatever calls were made
\* before, on this wave or on others, what a call returns (or raises) is the
\* value of the operation for the wave and the arguments of that call on the
\* grid of the analyzer: the one the transform of that wave gives and, for
\* find_multiple_peaks, one of the orders the sort may give to peaks of
\* equal magnitude.
C26_ResultDependsOnCallOnly ==
    /\ Returned("compute_spectrum")
          => raised = "none" /\ result \in compute_spectrum(wave, call.normalize)
    /\ Returned("find_dominant_frequency")
          => \E r \in find_dominant_frequency(wave, call.min_freq, call.max_freq) :
                raised = r.raises /\ result = r.value
    /\ Returned("find_multiple_peaks")
          => /\ raised = "none"
             /\ result \in find_multiple_peaks(wave, call.n_peaks, call.min_freq,
                                               call.max_freq, call.height)
    /\ Returned("compute_bandwidth")
          => raised = "none" /\ result \in compute_bandwidth(wave, call.threshold)
    /\ Returned("compute_energy")
          => raised = "none" /\ result = compute_energy(wave)
    /\ Returned("compute_statistics")
          => raised = "none" /\ result = compute_statistics(wave)

\* The normalized spectrum of a wave that is not silent has been returned:
\* it differs from its raw spectrum and from the spectrum of any wave with
\* another peak bin.
C26_Witness ==
    /\ Returned("compute_spectrum") /\ OnGrid(wave) /\ ~AllZero(wave)
    /\ call.normalize
    /\ result \in compute_spectrum(wave, TRUE)
    /\ result \notin compute_spectrum(wave, FALSE)
    /\ Len(result) = n_freq /\ n_freq >= 6

\* The (0, 0) that find_dominant_frequency returns for "no result".
IsSentinel2(r) == Len(r) = 2 /\ r[1] = RZero /\ MagEq(r[2], MagZero)

\* C27: find_dominant_frequency returns the (0, 0) sentinel if and only if
\* the restricted frequency sub-range freq_positive[min_idx:max_idx] is
\* empty.  When the sub-range is not empty the frequency returned is
\* strictly positive, and for an all-zero wave the result is (lowest
\* frequency of the sub-range, 0), not the sentinel.
C27_SentinelIffEmptySubRange ==
    Returned("find_dominant_frequency")
    => LET empty == SubRangeBins(call.min_freq, call.max_freq) = {}
       IN  /\ empty => raised = "none" /\ IsSentinel2(result)
           /\ (~empty /\ raised = "none")
                 => /\ ~IsSentinel2(result)
                    /\ RLt(RZero, result[1])
                    /\ AllZero(wave)
                          => /\ result[1] = At(freq_positive, min_idx(call.min_freq))
                             /\ MagEq(result[2], MagZero)

\* An all-zero wave on the grid, searched in a sub-range of several bins
\* that does not start at the lowest bin of the grid.
C27_Witness ==
    /\ Returned("find_dominant_frequency") /\ OnGrid(wave) /\ AllZero(wave)
    /\ raised = "none"
    /\ Cardinality(SubRangeBins(call.min_freq, call.max_freq)) >= 2
    /\ min_idx(call.min_freq) >= 2
    /\ result[1] = At(freq_positive, min_idx(call.min_freq))
    /\ MagEq(result[2], MagZero)
    /\ ~IsSentinel2(result)

\* The sub-range is empty on a grid that has positive frequencies.
C27_WitnessEmpty ==
    /\ Returned("find_dominant_frequency") /\ OnGrid(wave) /\ ~AllZero(wave)
    /\ Len(freq_positive) >= 2
    /\ SubRangeBins(call.min_freq, call.max_freq) = {}
    /\ IsSentinel2(result)

(***************************************************************************)
(* WaveformManager.analyze_single_waveform.  The manager's analyzer is     *)
(* built from the manager's t_max and n_samples; the wave in the buffer is *)
(* wave_func(t_full, width), one sample for each instant of the grid.  The *)
(* plots, the report and the data files are written from the result and    *)
(* change nothing in it.                                                   *)
(***************************************************************************)
\* The widths and the names the manager is called with.
AnalysedWidths == {Rat(1, 2), RInt(1)}

WaveNames == {"Square Wave", "Triangle Wave"}

\* The threshold the manager appends to the bandwidth.
AppendedThreshold == Rat(1, 2)

\* plot_waveform_and_spectrum(t, wave, freq, spectrum, ...): what it raises.
\* The x axis of the spectrum is set to run from freq_plot[1] to
\* freq_plot[-1] whenever freq_plot is not empty.
plot_waveform_and_spectrum(freq_arg, spectrum_arg) ==
    LET min_len   == Min(Len(freq_arg), Len(spectrum_arg))
        freq_plot == Slice(freq_arg, 0, min_len)
    IN  IF Len(freq_plot) = 0 THEN "none"
        ELSE IF Len(freq_plot) = 1
        THEN \* freq_plot[1]
             "IndexError"
        ELSE IF ~IsFinite(At(freq_plot, 1)) \/ ~IsFinite(At(freq_plot, Len(freq_plot) - 1))
        THEN \* set_xlim: axis limits cannot be NaN or Inf
             "ValueError"
        ELSE "none"

\* analyze_single_waveform(wave_func, width, name): every analysis is called
\* with its default arguments and runs the transform again; the result is
\* built and then plotted, and it is returned if the plot raises nothing.
AnalyzeSingleWaveform(width, name) ==
    /\ pc = "loaded"
    /\ OnGrid(wave)
    /\ pc' = "returned"
    /\ call' = [op |-> "analyze_single_waveform", width |-> width, name |-> name]
    /\ \E spectrum \in compute_spectrum(wave, TRUE),
          dominant_freq \in find_dominant_frequency(wave, RInt(1), None),
          bandwidth \in compute_bandwidth(wave, DefaultThreshold),
          peaks \in find_multiple_peaks(wave, 3, RInt(1), None, Rat(1, 10)) :
           LET stats   == compute_statistics(wave)
               plotted == plot_waveform_and_spectrum(
                              freq_positive, Slice(spectrum, 1, Len(freq_positive) + 1))
           IN  IF dominant_freq.raises # "none"
               THEN raised' = dominant_freq.raises /\ result' = << >>
               ELSE IF plotted # "none"
               THEN raised' = plotted /\ result' = << >>
               ELSE /\ raised' = "none"
                    /\ result' = [name          |-> name,
                                  width         |-> width,
                                  dominant_freq |-> dominant_freq.value,
                                  bandwidth     |-> bandwidth \o << AppendedThreshold >>,
                                  peaks         |-> peaks,
                                  stats         |-> stats]
    /\ UNCHANGED << grid, wave >>

ManagerNext ==
    \/ \E arg \in ConfigArgs : Construct(arg)
    \/ \E w \in WavesFor(config.n_samples) : LoadWave(w)
    \/ \E width \in AnalysedWidths, name \in WaveNames : AnalyzeSingleWaveform(width, name)
    \/ Return
    \/ Release

ManagerSpec == Init /\ [][ManagerNext]_vars

\* C28: in every result analyze_single_waveform builds, the 4th element of
\* result['bandwidth'], the threshold the report prints, is the threshold
\* with which compute_bandwidth was evaluated to produce the first three
\* elements: that threshold is the default of compute_bandwidth, and the
\* first three elements are the band of the wave at the 4th.
C28_ReportedThresholdIsTheOneUsed ==
    (Returned("analyze_single_waveform") /\ raised = "none")
    => /\ Len(result.bandwidth) = 4
       /\ result.bandwidth[4] = DefaultThreshold
       /\ Slice(result.bandwidth, 0, 3) \in compute_bandwidth(wave, result.bandwidth[4])

====
